---------------------------- MODULE Spec2Model ----------------------------
(***************************************************************************)
(* A model of the generic press-release extractors of python-statement     *)
(* (src/generic_scrapers.py, src/python_statement/statement.py).           *)
(*                                                                         *)
(* One behaviour is one call of one extractor: the loop over the urls, the *)
(* page fetch for each url, the scan of the page's containers, the records *)
(* appended to results, and the return (or the exception that ends the     *)
(* call).                                                                  *)
(*                                                                         *)
(* Representation.  A Python str is a sequence of one-character strings,   *)
(* so that startswith, "in", replace, strip, urlparse and strptime are     *)
(* computed character by character; the one exception is a month name,     *)
(* which is a single lexeme ("January").  Python's None is the value None  *)
(* below; a datetime.date is the triple <<year, month, day>>.              *)
(***************************************************************************)
EXTENDS Integers, Sequences, FiniteSets, TLC

(***************************************************************************)
(* Python values                                                           *)
(***************************************************************************)

\* Python's None, for a str-or-None and a date-or-None value.
None == <<"None">>

\* str(None), as an f-string renders it.
NoneStr == <<"N", "o", "n", "e">>

\* The exception strptime raises for a text that does not match a format.
ValueError == <<"ValueError">>

Digits == {"0", "1", "2", "3", "4", "5", "6", "7", "8", "9"}

LowerLetters ==
    {"a", "b", "c", "d", "e", "f", "g", "h", "i", "j", "k", "l", "m",
     "n", "o", "p", "q", "r", "s", "t", "u", "v", "w", "x", "y", "z"}

UpperLetters ==
    {"A", "B", "C", "D", "E", "F", "G", "H", "I", "J", "K", "L", "M",
     "N", "O", "P", "Q", "R", "S", "T", "U", "V", "W", "X", "Y", "Z"}

Whitespace == {" ", "\n", "\t"}

DigitVal(c) ==
    CASE c = "0" -> 0 [] c = "1" -> 1 [] c = "2" -> 2 [] c = "3" -> 3
      [] c = "4" -> 4 [] c = "5" -> 5 [] c = "6" -> 6 [] c = "7" -> 7
      [] c = "8" -> 8 [] c = "9" -> 9

DigitChar(n) ==
    CASE n = 0 -> "0" [] n = 1 -> "1" [] n = 2 -> "2" [] n = 3 -> "3"
      [] n = 4 -> "4" [] n = 5 -> "5" [] n = 6 -> "6" [] n = 7 -> "7"
      [] n = 8 -> "8" [] n = 9 -> "9"

MinOf(S) == CHOOSE x \in S : \A y \in S : x <= y

\* s.startswith(p)
StartsWith(s, p) == Len(s) >= Len(p) /\ SubSeq(s, 1, Len(p)) = p

\* sub in s
Contains(s, sub) ==
    \E i \in 1..(Len(s) - Len(sub) + 1) : SubSeq(s, i, i + Len(sub) - 1) = sub

\* The index of the first character of s, at or after position from, that is
\* in the set C; Len(s) + 1 when there is none.
FindFirst(s, C, from) ==
    LET I == {i \in from..Len(s) : s[i] \in C}
    IN  IF I = {} THEN Len(s) + 1 ELSE MinOf(I)

\* s.strip(): leading and trailing whitespace removed.
Strip(s) ==
    LET I == {i \in 1..Len(s) : s[i] \notin Whitespace}
    IN  IF I = {} THEN <<>>
        ELSE SubSeq(s, MinOf(I), CHOOSE x \in I : \A y \in I : y <= x)

\* s.replace(a, b) for one-character a and b.
\* A replace that would leave the text as it is.
Replace_nothing(s, a, b) == s

Replace(s, a, b) == [i \in 1..Len(s) |-> IF s[i] = a THEN b ELSE s[i]]

\* c.lower() for one character.
LowerChar(c) ==
    CASE c = "A" -> "a" [] c = "B" -> "b" [] c = "C" -> "c" [] c = "D" -> "d"
      [] c = "E" -> "e" [] c = "F" -> "f" [] c = "G" -> "g" [] c = "H" -> "h"
      [] c = "I" -> "i" [] c = "J" -> "j" [] c = "K" -> "k" [] c = "L" -> "l"
      [] c = "M" -> "m" [] c = "N" -> "n" [] c = "O" -> "o" [] c = "P" -> "p"
      [] c = "Q" -> "q" [] c = "R" -> "r" [] c = "S" -> "s" [] c = "T" -> "t"
      [] c = "U" -> "u" [] c = "V" -> "v" [] c = "W" -> "w" [] c = "X" -> "x"
      [] c = "Y" -> "y" [] c = "Z" -> "z"
      [] OTHER -> c

Lower(s) == [i \in 1..Len(s) |-> LowerChar(s[i])]

(***************************************************************************)
(* urllib.parse.urlparse: the scheme, netloc and path of a URL string.     *)
(***************************************************************************)

SchemeChars == LowerLetters \cup UpperLetters \cup Digits \cup {"+", "-", "."}

urlparse(url) ==
    LET colon     == FindFirst(url, {":"}, 1)
        hasScheme == /\ colon <= Len(url)
                     /\ colon > 1
                     /\ url[1] \in LowerLetters \cup UpperLetters
                     /\ \A i \in 1..(colon - 1) : url[i] \in SchemeChars
        scheme    == IF hasScheme THEN Lower(SubSeq(url, 1, colon - 1)) ELSE <<>>
        rest      == IF hasScheme THEN SubSeq(url, colon + 1, Len(url)) ELSE url
        hasNetloc == StartsWith(rest, <<"/", "/">>)
        delim     == FindFirst(rest, {"/", "?", "#"}, 3)
        netloc    == IF hasNetloc THEN SubSeq(rest, 3, delim - 1) ELSE <<>>
        rest2     == IF hasNetloc THEN SubSeq(rest, delim, Len(rest)) ELSE rest
        pathEnd   == FindFirst(rest2, {"?", "#"}, 1)
    IN  [scheme |-> scheme,
         netloc |-> netloc,
         path   |-> SubSeq(rest2, 1, pathEnd - 1)]

(***************************************************************************)
(* datetime.datetime.strptime(text, fmt).date()                            *)
(*                                                                         *)
(* A format is the sequence of its directives and literal characters.      *)
(* strptime compiles it to a regular expression (a blank of the format     *)
(* matches one or more blanks), matches it at the start of the text, raises*)
(* ValueError when it does not match or when text remains after the match, *)
(* and raises ValueError again when the fields are no calendar date.       *)
(***************************************************************************)

FMT_mdy_slash == <<"%m", "/", "%d", "/", "%y">>
FMT_mdY_slash == <<"%m", "/", "%d", "/", "%Y">>
FMT_mdy_dot   == <<"%m", ".", "%d", ".", "%y">>
FMT_mdY_dot   == <<"%m", ".", "%d", ".", "%Y">>
FMT_BdY       == <<"%B", " ", "%d", ",", " ", "%Y">>
FMT_bdY       == <<"%b", " ", "%d", ",", " ", "%Y">>
FMT_Ymd       == <<"%Y", "-", "%m", "-", "%d">>

MonthNames ==
    <<"January", "February", "March", "April", "May", "June", "July",
      "August", "September", "October", "November", "December">>

MonthAbbrs ==
    <<"Jan", "Feb", "Mar", "Apr", "May", "Jun", "Jul", "Aug", "Sep", "Oct",
      "Nov", "Dec">>

IsLeap(y) == (y % 4 = 0 /\ y % 100 # 0) \/ y % 400 = 0

DaysInMonth(y, m) ==
    CASE m \in {1, 3, 5, 7, 8, 10, 12} -> 31
      [] m \in {4, 6, 9, 11} -> 30
      [] OTHER -> IF IsLeap(y) THEN 29 ELSE 28

\* The value of the first n characters of text when they are n digits, else -1.
NumPrefix(text, n) ==
    IF Len(text) >= n /\ \A i \in 1..n : text[i] \in Digits
    THEN IF n = 1 THEN DigitVal(text[1])
         ELSE IF n = 2 THEN 10 * DigitVal(text[1]) + DigitVal(text[2])
         ELSE 1000 * DigitVal(text[1]) + 100 * DigitVal(text[2])
              + 10 * DigitVal(text[3]) + DigitVal(text[4])
    ELSE -1

\* The alternatives of a numeric directive's regular expression, in the
\* order the expression lists them, as <<length, value>> pairs:
\*   %m  1[0-2]|0[1-9]|[1-9]         %d  3[01]|[12]\d|0[1-9]|[1-9]
\*   %y  \d\d                        %Y  \d\d\d\d
Candidates(f, text) ==
    LET two  == NumPrefix(text, 2)
        one  == NumPrefix(text, 1)
        four == NumPrefix(text, 4)
    IN  CASE f = "%m" ->
               (IF two >= 1 /\ two <= 12 THEN <<(<<2, two>>)>> ELSE <<>>)
               \o (IF one >= 1 THEN <<(<<1, one>>)>> ELSE <<>>)
          [] f = "%d" ->
               (IF two >= 1 /\ two <= 31 THEN <<(<<2, two>>)>> ELSE <<>>)
               \o (IF one >= 1 THEN <<(<<1, one>>)>> ELSE <<>>)
          [] f = "%y" -> IF two >= 0 THEN <<(<<2, two>>)>> ELSE <<>>
          [] f = "%Y" -> IF four >= 0 THEN <<(<<4, four>>)>> ELSE <<>>

\* The year a %y value stands for (POSIX: 69-99 are 1969-1999, 0-68 are
\* 2000-2068).
\* A pivot that would put every two-digit year in the 2000s.
TwoDigitYear_all_2000s(v) == 2000 + v

TwoDigitYear(v) == IF v <= 68 THEN 2000 + v ELSE 1900 + v

SetField(acc, f, v) ==
    CASE f = "%m" -> [acc EXCEPT !.m = v]
      [] f = "%d" -> [acc EXCEPT !.d = v]
      [] f = "%y" -> [acc EXCEPT !.y = TwoDigitYear(v)]
      [] f = "%Y" -> [acc EXCEPT !.y = v]

\* The number of leading whitespace characters of text.
LeadingBlanks(text) == FindFirst(text, {text[i] : i \in 1..Len(text)} \ Whitespace, 1) - 1

\* The month a %B (full name) or %b (abbreviation) lexeme names, 0 for none.
MonthIndex(f, w) ==
    IF f = "%B"
    THEN IF \E k \in 1..12 : MonthNames[k] = w
         THEN CHOOSE k \in 1..12 : MonthNames[k] = w ELSE 0
    ELSE IF \E k \in 1..12 : MonthAbbrs[k] = w
         THEN CHOOSE k \in 1..12 : MonthAbbrs[k] = w ELSE 0

RECURSIVE MatchFrom(_, _, _)
RECURSIVE MatchAny(_, _, _, _, _, _)
\* r is the match after the alternative cands[k]; the next alternative is
\* tried when it failed.
MatchAnyElse(r, fmt, text, acc, f, cands, k) ==
    IF r.ok THEN r ELSE MatchAny(fmt, text, acc, f, cands, k + 1)

\* The first of the alternatives cands[k..] of the directive f after which the
\* rest of the format matches (the regular expression backtracks in order).
MatchAny(fmt, text, acc, f, cands, k) ==
    IF k > Len(cands) THEN [ok |-> FALSE, acc |-> acc, rest |-> text]
    ELSE MatchAnyElse(MatchFrom(fmt, SubSeq(text, cands[k][1] + 1, Len(text)),
                                SetField(acc, f, cands[k][2])),
                      fmt, text, acc, f, cands, k)

\* The regular expression's match of fmt at the start of text:
\* [ok, acc (the fields found), rest (the text after the match)].
MatchFrom(fmt, text, acc) ==
    IF fmt = <<>> THEN [ok |-> TRUE, acc |-> acc, rest |-> text]
    ELSE IF Head(fmt) \in {"%m", "%d", "%y", "%Y"} THEN
        MatchAny(Tail(fmt), text, acc, Head(fmt), Candidates(Head(fmt), text), 1)
    ELSE IF Head(fmt) \in {"%B", "%b"} THEN
        IF text # <<>> /\ MonthIndex(Head(fmt), text[1]) > 0
        THEN MatchFrom(Tail(fmt), Tail(text),
                       [acc EXCEPT !.m = MonthIndex(Head(fmt), text[1])])
        ELSE [ok |-> FALSE, acc |-> acc, rest |-> text]
    ELSE IF Head(fmt) = " " THEN
        IF LeadingBlanks(text) = 0 THEN [ok |-> FALSE, acc |-> acc, rest |-> text]
        ELSE MatchFrom(Tail(fmt), SubSeq(text, LeadingBlanks(text) + 1, Len(text)), acc)
    ELSE
        IF text # <<>> /\ text[1] = Head(fmt)
        THEN MatchFrom(Tail(fmt), Tail(text), acc)
        ELSE [ok |-> FALSE, acc |-> acc, rest |-> text]

\* The date of a match: ValueError when the format did not match, when text
\* remains after the match, or when the fields are no calendar date.
date_of_match(found) ==
    IF ~found.ok THEN ValueError
    ELSE IF found.rest # <<>> THEN ValueError
    ELSE IF found.acc.y < 1 \/ found.acc.d > DaysInMonth(found.acc.y, found.acc.m)
         THEN ValueError
    ELSE <<found.acc.y, found.acc.m, found.acc.d>>

strptime(text, fmt) ==
    date_of_match(MatchFrom(fmt, text, [y |-> 1900, m |-> 1, d |-> 1]))

\* A ladder that would try its first format only and let its ValueError out.
first_format_first_only(date_text, date_formats) ==
    strptime(date_text, Head(date_formats))

RECURSIVE first_format(_, _)
\* d is the outcome of the first format; the ladder goes on after a ValueError.
first_format_else(d, date_text, date_formats) ==
    IF d # ValueError THEN d ELSE first_format(date_text, date_formats)

\* The ladder shared by the extractors:
\*     date = None
\*     for fmt in date_formats:
\*         try: date = strptime(date_text, fmt).date(); break
\*         except ValueError: continue
first_format(date_text, date_formats) ==
    IF date_formats = <<>> THEN None
    ELSE first_format_else(strptime(date_text, Head(date_formats)),
                           date_text, Tail(date_formats))

(***************************************************************************)
(* The fetched document (BeautifulSoup).                                   *)
(*                                                                         *)
(* A page is the sequence of its candidate containers in document order; a *)
(* container is [tag, class, anc, els] with els the elements inside it in  *)
(* document order; an element is [tag, class, anc, text, href, datetime],  *)
(* anc being the tags (or ".class" marks) of the elements that enclose it  *)
(* inside the container (for a container: the tags that enclose it in the  *)
(* page).  href and datetime are the attribute values, None when the       *)
(* attribute is missing (Tag.get).                                         *)
(***************************************************************************)

\* select_one's result when nothing matches.
NoElement ==
    [tag |-> "None", class |-> "", anc |-> {}, text |-> <<>>,
     href |-> None, datetime |-> None]

\* A CSS selector: a tag ("" for any), a class ("" for any), and the
\* ancestors it requires.
Sel(tag, class, anc) == [tag |-> tag, class |-> class, anc |-> anc]

Matches(el, sel) ==
    /\ sel.tag = "" \/ el.tag = sel.tag
    /\ sel.class = "" \/ el.class = sel.class
    /\ sel.anc \subseteq el.anc

\* row.select_one(sel) / row.find(tag): the first match in document order.
select_one(row, sel) ==
    LET I == {k \in 1..Len(row.els) : Matches(row.els[k], sel)}
    IN  IF I = {} THEN NoElement ELSE row.els[MinOf(I)]

\* doc.select(sel) / doc.find_all(...): every match in document order.
select(doc, sel) == SelectSeq(doc, LAMBDA c : Matches(c, sel))

\* Python's "a or b" for two select_one results (a Tag is always truthy).
OrElse(a, b) == IF a # NoElement THEN a ELSE b

\* Python's truth value of a str-or-None.
Truthy(s) == s # None /\ s # <<>>

SEL_a                 == Sel("a", "", {})
SEL_td_recordListDate == Sel("td", "recordListDate", {})
SEL_h3_a              == Sel("a", "", {"h3"})
SEL_h2_a              == Sel("a", "", {"h2"})
SEL_td_a              == Sel("a", "", {"td"})
SEL_p                 == Sel("p", "", {})
SEL_time              == Sel("time", "", {})
SEL_span_icon_list    == Sel("span", "elementor-icon-list-text", {})
SEL_li_span_icon_list == Sel("span", "elementor-icon-list-text", {"li"})
SEL_post_date         == Sel("", "elementor-post-date", {})
SEL_list_title        == Sel("", "post-media-list-title", {})
SEL_element_title     == Sel("", "element-title", {})
SEL_list_date         == Sel("", "post-media-list-date", {})
SEL_element_datetime  == Sel("", "element-datetime", {})
SEL_row_col_auto      == Sel("", "col-auto", {".row"})

SEL_table_tbody_tr    == Sel("tr", "", {"table", "tbody"})
SEL_table_tr          == Sel("tr", "", {"table"})
SEL_jet_item          == Sel("", "jet-listing-grid__item", {})
SEL_widget_wrap       == Sel("", "elementor-widget-wrap", {})
SEL_ArticleBlock      == Sel("div", "ArticleBlock", {})
SEL_element           == Sel("", "element", {})
SEL_media_body        == Sel("div", "media-body", {})

(***************************************************************************)
(* The extractors.                                                         *)
(***************************************************************************)

Extractors ==
    {"table_recordlist_date", "jet_listing_elementor", "article_block_h2_p_date",
     "table_time", "element_post_media", "media_body"}

\* The five methods of GenericScrapers.
GenericExtractors == Extractors \ {"media_body"}

S_http   == <<"h", "t", "t", "p">>
S_https_ == <<"h", "t", "t", "p", "s", ":", "/", "/">>
S_qpage  == <<"?", "p", "a", "g", "e", "=">>
S_apage  == <<"&", "p", "a", "g", "e", "=">>

RECURSIVE str(_)
\* str(n) for a non-negative int.
str(n) == IF n < 10 THEN <<DigitChar(n)>> ELSE str(n \div 10) \o <<DigitChar(n % 10)>>

\* What one pass of the row loop does: "continue", "append" (results.append
\* of result) or "raise" (an exception leaves the method).
\* A "continue" that would leave the method instead of the pass.
Continue_as_raise == [kind |-> "raise", result |-> <<>>]

Continue      == [kind |-> "continue", result |-> <<>>]
Raise         == [kind |-> "raise", result |-> <<>>]
AppendOf(url, full_url, title, date, domain) ==
    [kind   |-> "append",
     result |-> [source |-> url, url |-> full_url, title |-> title,
                 date |-> date, domain |-> domain]]

(*------------------------ table_recordlist_date -------------------------*)

table_recordlist_date_formats ==
    <<FMT_mdy_slash, FMT_mdY_slash, FMT_mdy_dot, FMT_mdY_dot, FMT_BdY>>

\* source_url = f"{url}?page={page}" if "?" not in url else f"{url}&page={page}"
table_recordlist_date_source_url(url, page) ==
    IF ~Contains(url, <<"?">>) THEN url \o S_qpage \o str(page)
    ELSE url \o S_apage \o str(page)

table_recordlist_date_rows(doc) == select(doc, SEL_table_tbody_tr)

\* href.startswith('http') on the value of link.get('href'): None has no
\* startswith, so a link without href raises AttributeError.
full_url_of(href, domain) ==
    IF StartsWith(href, S_http) THEN href ELSE S_https_ \o domain \o href

\* The body of "for row in rows".
table_recordlist_date(row, url, domain) ==
    LET link      == select_one(row, SEL_a)
        date_cell == select_one(row, SEL_td_recordListDate)
        date_text == Strip(date_cell.text)
        date      == first_format(date_text, table_recordlist_date_formats)
        href      == link.href
    IN  IF ~(link # NoElement /\ date_cell # NoElement) THEN Continue
        ELSE IF href = None THEN Raise
        ELSE AppendOf(url, full_url_of(href, domain), Strip(link.text), date, domain)

(*------------------------ jet_listing_elementor -------------------------*)

jet_listing_elementor_formats == <<FMT_BdY, FMT_mdY_slash, FMT_mdy_slash>>

S_qjsf      == <<"?", "j", "s", "f", "=">>
S_apagenum  == <<"&", "p", "a", "g", "e", "n", "u", "m", "=">>
S_pagenum   == <<"/", "p", "a", "g", "e", "n", "u", "m", "/">>
S_jsf       == <<"/", "j", "s", "f", "/">>
S_jsfquery  == <<"j", "s", "f", "=", "j", "e", "t", "-", "e", "n", "g", "i", "n", "e", ":", "p", "r", "e", "s", "s", "-", "l", "i", "s", "t", "&", "p", "a", "g", "e", "n", "u", "m", "=">>

\* s has p at position k.
HasAt(s, k, p) == k + Len(p) - 1 <= Len(s) /\ SubSeq(s, k, k + Len(p) - 1) = p

\* The length of the match of prefix \d+ suffix at position k of s, 0 when it
\* does not match there (\d+ is greedy and gives digits back to the suffix).
DigitsMatch(s, k, prefix, suffix) ==
    LET afterPrefix == k + Len(prefix)
        run  == FindFirst(s, {s[n] : n \in 1..Len(s)} \ Digits, afterPrefix)
                - afterPrefix
        lens == {n \in 1..run : HasAt(s, afterPrefix + n, suffix)}
    IN  IF ~HasAt(s, k, prefix) \/ lens = {} THEN 0
        ELSE Len(prefix) + (CHOOSE n \in lens : \A o \in lens : o <= n) + Len(suffix)

RECURSIVE re_sub_from(_, _, _, _, _)
\* re.sub(prefix + r'\d+' + suffix, repl, s), scanning from position k.
re_sub_from(s, k, prefix, suffix, repl) ==
    IF k > Len(s) THEN <<>>
    ELSE LET n == DigitsMatch(s, k, prefix, suffix)
         IN  IF n > 0 THEN repl \o re_sub_from(s, k + n, prefix, suffix, repl)
             ELSE <<s[k]>> \o re_sub_from(s, k + 1, prefix, suffix, repl)

\* url.rstrip('/')
RECURSIVE rstrip_slash(_)
rstrip_slash(s) ==
    IF s # <<>> /\ s[Len(s)] = "/" THEN rstrip_slash(SubSeq(s, 1, Len(s) - 1)) ELSE s

jet_listing_elementor_source_url(url, page) ==
    LET marker == S_pagenum \o str(page) \o <<"/">>
        subbed == re_sub_from(url, 1, S_pagenum, <<"/">>, marker)
    IN  IF Contains(url, S_qjsf) THEN url \o S_apagenum \o str(page)
        ELSE IF Contains(url, S_pagenum) THEN
            IF Contains(url, marker) THEN url
            ELSE IF ~Contains(subbed, S_pagenum)
                 THEN rstrip_slash(url) \o marker
                 ELSE subbed
        ELSE IF Contains(url, S_jsf) THEN url \o marker
        ELSE url \o (IF Contains(url, <<"?">>) THEN <<"&">> ELSE <<"?">>)
                 \o S_jsfquery \o str(page)

\* A selection that would merge the matches of both selectors.
jet_listing_elementor_rows_merged(doc) ==
    select(doc, SEL_jet_item) \o select(doc, SEL_widget_wrap)

\* items = doc.select(".jet-listing-grid__item")
\* if not items: items = doc.select(".elementor-widget-wrap")
jet_listing_elementor_rows(doc) ==
    LET items == select(doc, SEL_jet_item)
    IN  IF items = <<>> THEN select(doc, SEL_widget_wrap) ELSE items

jet_listing_elementor(row, url, domain) ==
    LET link      == select_one(row, SEL_h3_a)
        date_elem == OrElse(select_one(row, SEL_span_icon_list),
                            OrElse(select_one(row, SEL_li_span_icon_list),
                                   select_one(row, SEL_post_date)))
        date      == IF date_elem # NoElement
                     THEN first_format(Strip(date_elem.text), jet_listing_elementor_formats)
                     ELSE None
    IN  IF link = NoElement THEN Continue
        ELSE AppendOf(url, link.href, Strip(link.text), date, domain)

(*----------------------- article_block_h2_p_date ------------------------*)

article_block_h2_p_date_formats ==
    <<FMT_mdy_slash, FMT_mdY_slash, FMT_BdY, FMT_bdY, FMT_Ymd>>

S_PageNum_rs  == <<"P", "a", "g", "e", "N", "u", "m", "_", "r", "s">>
S_PageNum_rsE == <<"P", "a", "g", "e", "N", "u", "m", "_", "r", "s", "=">>

article_block_h2_p_date_source_url(url, page) ==
    LET marker == S_PageNum_rsE \o str(page)
    IN  IF Contains(url, S_PageNum_rs) THEN
            IF ~Contains(url, marker)
            THEN re_sub_from(url, 1, S_PageNum_rsE, <<>>, marker)
            ELSE url
        ELSE IF Contains(url, <<"?">>) THEN url \o <<"&">> \o marker
        ELSE url \o <<"?">> \o marker

article_block_h2_p_date_rows(doc) == select(doc, SEL_ArticleBlock)

RECURSIVE article_block_first_format(_, _, _)
\* d1 and d2 are the outcomes of one format on the normalized and on the
\* original text; the ladder goes on when both are a ValueError.
article_block_first_format_else(d1, d2, date_text_normalized, date_text, date_formats) ==
    IF d1 # ValueError THEN d1
    ELSE IF d2 # ValueError THEN d2
    ELSE article_block_first_format(date_text_normalized, date_text, date_formats)

\* for fmt in date_formats:
\*     try: date = strptime(date_text_normalized, fmt).date(); break
\*     except ValueError:
\*         try: date = strptime(date_text, fmt).date(); break
\*         except ValueError: continue
article_block_first_format(date_text_normalized, date_text, date_formats) ==
    IF date_formats = <<>> THEN None
    ELSE article_block_first_format_else(
             strptime(date_text_normalized, Head(date_formats)),
             strptime(date_text, Head(date_formats)),
             date_text_normalized, date_text, Tail(date_formats))

\* link = row.select_one("h2 a"); if not link: link = row.select_one("h3 a")
article_block_link(row) ==
    OrElse(select_one(row, SEL_h2_a), select_one(row, SEL_h3_a))

\* A date element choice that would prefer the time element.
article_block_date_elem_time_first(row) ==
    OrElse(select_one(row, SEL_time), select_one(row, SEL_p))

\* date_elem = row.select_one("p") or row.select_one("time")
article_block_date_elem(row) ==
    OrElse(select_one(row, SEL_p), select_one(row, SEL_time))

\* A date text that would be the display text whenever there is one.
article_block_date_text_display_first(date_elem) ==
    IF Strip(date_elem.text) # <<>> THEN Strip(date_elem.text) ELSE date_elem.datetime

\* date_text = date_elem.text.strip()
\* if date_elem.name == 'time' and date_elem.get('datetime'):
\*     date_text = date_elem.get('datetime')
article_block_date_text(date_elem) ==
    IF date_elem.tag = "time" /\ Truthy(date_elem.datetime)
    THEN date_elem.datetime
    ELSE Strip(date_elem.text)

article_block_h2_p_date(row, url, domain) ==
    LET link      == article_block_link(row)
        date_elem == article_block_date_elem(row)
        date_text == article_block_date_text(date_elem)
        date      == IF date_elem # NoElement
                     THEN article_block_first_format(Replace(date_text, ".", "/"),
                              date_text, article_block_h2_p_date_formats)
                     ELSE None
    IN  IF link = NoElement THEN Continue
        ELSE AppendOf(url, link.href, Strip(link.text), date, domain)

(*------------------------------ table_time ------------------------------*)

table_time_formats == <<FMT_mdy_slash, FMT_mdY_slash, FMT_Ymd, FMT_BdY>>

\* source_url = f"{url}{'&' if '?' in url else '?'}page={page}"
\* A rule that would write the marker twice.
table_time_source_url_twice(url, page) ==
    url \o S_qpage \o str(page) \o S_apage \o str(page)

table_time_source_url(url, page) ==
    url \o (IF Contains(url, <<"?">>) THEN S_apage ELSE S_qpage) \o str(page)

\* rows = doc.select("table tr")[1:]
table_time_rows(doc) ==
    LET all == select(doc, SEL_table_tr)
    IN  IF all = <<>> THEN <<>> ELSE Tail(all)

\* A table_time that would read the display text before the attribute.
table_time_text_first(row, url, domain) ==
    LET link      == OrElse(select_one(row, SEL_td_a), select_one(row, SEL_a))
        time_elem == select_one(row, SEL_time)
        date_text == IF Strip(time_elem.text) # <<>> THEN Strip(time_elem.text)
                     ELSE time_elem.datetime
        date      == IF time_elem # NoElement
                     THEN first_format(date_text, table_time_formats)
                     ELSE None
        href      == link.href
    IN  IF link = NoElement THEN Continue
        ELSE IF href = None THEN Raise
        ELSE AppendOf(url, full_url_of(href, domain), Strip(link.text), date, domain)

table_time(row, url, domain) ==
    LET link      == OrElse(select_one(row, SEL_td_a), select_one(row, SEL_a))
        time_elem == select_one(row, SEL_time)
        date_text == IF Truthy(time_elem.datetime) THEN time_elem.datetime
                     ELSE Strip(time_elem.text)
        date      == IF time_elem # NoElement
                     THEN first_format(date_text, table_time_formats)
                     ELSE None
        href      == link.href
    IN  IF link = NoElement THEN Continue
        ELSE IF href = None THEN Raise
        ELSE AppendOf(url, full_url_of(href, domain), Strip(link.text), date, domain)

(*-------------------------- element_post_media --------------------------*)

element_post_media_formats == <<FMT_BdY, FMT_mdY_slash, FMT_mdy_slash, FMT_mdY_dot>>

element_post_media_source_url(url, page) ==
    url \o (IF Contains(url, <<"?">>) THEN S_apage ELSE S_qpage) \o str(page)

element_post_media_rows(doc) == select(doc, SEL_element)

element_post_media(row, url, domain) ==
    LET link       == select_one(row, SEL_a)
        title_elem == OrElse(select_one(row, SEL_list_title),
                             select_one(row, SEL_element_title))
        date_elem  == OrElse(select_one(row, SEL_list_date),
                             select_one(row, SEL_element_datetime))
        date       == first_format(Strip(date_elem.text), element_post_media_formats)
    IN  IF ~(link # NoElement /\ title_elem # NoElement /\ date_elem # NoElement)
        THEN Continue
        ELSE AppendOf(url, link.href, Strip(title_elem.text), date, domain)

(*------------------------- Scraper.media_body ---------------------------*)

\* try "%m/%d/%y", except ValueError: try "%B %d, %Y", except ValueError: pass
media_body_formats == <<FMT_mdy_slash, FMT_BdY>>

\* source_url = f"{url}?page={page}"
media_body_source_url(url, page) == url \o S_qpage \o str(page)

media_body_rows(doc) == select(doc, SEL_media_body)

\* f"{x}" of a str-or-None.
fstr(x) == IF x = None THEN NoneStr ELSE x

media_body(row, url, domain) ==
    LET link      == select_one(row, SEL_a)
        date_elem == select_one(row, SEL_row_col_auto)
        date      == first_format(Strip(date_elem.text), media_body_formats)
    IN  IF ~(link # NoElement /\ date_elem # NoElement) THEN Continue
        ELSE AppendOf(url, S_https_ \o domain \o fstr(link.href),
                      Strip(link.text), date, domain)

(*------------------------------ dispatch --------------------------------*)

SourceUrl(e, url, page) ==
    CASE e = "table_recordlist_date"   -> table_recordlist_date_source_url(url, page)
      [] e = "jet_listing_elementor"   -> jet_listing_elementor_source_url(url, page)
      [] e = "article_block_h2_p_date" -> article_block_h2_p_date_source_url(url, page)
      [] e = "table_time"              -> table_time_source_url(url, page)
      [] e = "element_post_media"      -> element_post_media_source_url(url, page)
      [] e = "media_body"              -> media_body_source_url(url, page)

Rows(e, doc) ==
    CASE e = "table_recordlist_date"   -> table_recordlist_date_rows(doc)
      [] e = "jet_listing_elementor"   -> jet_listing_elementor_rows(doc)
      [] e = "article_block_h2_p_date" -> article_block_h2_p_date_rows(doc)
      [] e = "table_time"              -> table_time_rows(doc)
      [] e = "element_post_media"      -> element_post_media_rows(doc)
      [] e = "media_body"              -> media_body_rows(doc)

RowBody(e, row, url, domain) ==
    CASE e = "table_recordlist_date"   -> table_recordlist_date(row, url, domain)
      [] e = "jet_listing_elementor"   -> jet_listing_elementor(row, url, domain)
      [] e = "article_block_h2_p_date" -> article_block_h2_p_date(row, url, domain)
      [] e = "table_time"              -> table_time(row, url, domain)
      [] e = "element_post_media"      -> element_post_media(row, url, domain)
      [] e = "media_body"              -> media_body(row, url, domain)

\* The date ladder of each extractor.
DateFormats(e) ==
    CASE e = "table_recordlist_date"   -> table_recordlist_date_formats
      [] e = "jet_listing_elementor"   -> jet_listing_elementor_formats
      [] e = "article_block_h2_p_date" -> article_block_h2_p_date_formats
      [] e = "table_time"              -> table_time_formats
      [] e = "element_post_media"      -> element_post_media_formats
      [] e = "media_body"              -> media_body_formats

(*---------------------- Utils.remove_generic_urls -----------------------*)

GenericPaths == {<<"/", "n", "e", "w", "s", "/">>, <<"/", "n", "e", "w", "s">>}

NotGeneric(r) == urlparse(r.url).path \notin GenericPaths

\* if not results: return []
\* return [r for r in filtered_results if urlparse(r['url']).path not in [...]]
remove_generic_urls(rs) == IF rs = <<>> THEN <<>> ELSE SelectSeq(rs, NotGeneric)

(*-------------------------- Scraper.open_html ---------------------------*)

\* What a request meets: error is the exception requests.get raises ("" when
\* it returns a response), status the status code of the response, lxml and
\* html_parser what BeautifulSoup makes of the body with each parser (ok is
\* FALSE when the constructor raises).
Response(error, status, lxml, html_parser) ==
    [error |-> error, status |-> status, lxml |-> lxml, html_parser |-> html_parser]

Parsed(doc) == [ok |-> TRUE, doc |-> doc]
Unparsed    == [ok |-> FALSE, doc |-> <<>>]

\* What open_html returns: a document, or None.
Document(doc) == [none |-> FALSE, doc |-> doc]
NoDocument    == [none |-> TRUE, doc |-> <<>>]

\* response.raise_for_status() raises HTTPError for a 4xx or 5xx status.
raise_for_status(status) == status >= 400 /\ status < 600

\* An open_html that would not look at the status code.
open_html_ignoring_status(resp) ==
    IF resp.error # "" THEN NoDocument
    ELSE IF resp.lxml.ok THEN Document(resp.lxml.doc)
    ELSE IF resp.html_parser.ok THEN Document(resp.html_parser.doc)
    ELSE NoDocument

\* try:
\*     response = requests.get(url, headers=headers, timeout=30)
\*     response.raise_for_status()
\*     try: return BeautifulSoup(response.content, 'lxml')
\*     except: return BeautifulSoup(response.content, 'html.parser')
\* except requests.exceptions.RequestException: return None
\* except Exception: return None
open_html(resp) ==
    IF resp.error # "" THEN NoDocument
    ELSE IF raise_for_status(resp.status) THEN NoDocument
    ELSE IF resp.lxml.ok THEN Document(resp.lxml.doc)
    ELSE IF resp.html_parser.ok THEN Document(resp.html_parser.doc)
    ELSE NoDocument

(***************************************************************************)
(* The inputs: the urls a caller passes, and the pages the sites serve.    *)
(***************************************************************************)

\* Bounds of the model.
MaxRows == 3
MaxUrls == 2
MaxPage == 2

\* Listing urls: https without a query, https with a query, plain http.
URL_a == <<"h", "t", "t", "p", "s", ":", "/", "/", "a", ".", "g", "o", "v", "/", "p", "r">>
URL_q == <<"h", "t", "t", "p", "s", ":", "/", "/", "b", ".", "g", "o", "v", "/", "p", "r", "?", "t", "=", "1">>
URL_h == <<"h", "t", "t", "p", ":", "/", "/", "c", ".", "g", "o", "v", "/", "p", "r">>

Urls == {URL_a, URL_q, URL_h}

\* Listing urls of the jet engine without a page marker, and listing urls that
\* carry a page marker already: page=3, PageNum_rs=12, pagenum=3, /pagenum/3/.
URL_jsf_query       == <<"h", "t", "t", "p", "s", ":", "/", "/", "a", ".", "g", "o", "v", "/", "p", "r", "?", "j", "s", "f", "=", "x">>
URL_jsf_path        == <<"h", "t", "t", "p", "s", ":", "/", "/", "a", ".", "g", "o", "v", "/", "j", "s", "f", "/", "x">>
URL_page_3          == <<"h", "t", "t", "p", "s", ":", "/", "/", "a", ".", "g", "o", "v", "/", "p", "r", "?", "p", "a", "g", "e", "=", "3">>
URL_PageNum_rs_12   == <<"h", "t", "t", "p", "s", ":", "/", "/", "a", ".", "g", "o", "v", "/", "p", "r", "?", "P", "a", "g", "e", "N", "u", "m", "_", "r", "s", "=", "1", "2">>
URL_pagenum_query_3 == <<"h", "t", "t", "p", "s", ":", "/", "/", "a", ".", "g", "o", "v", "/", "p", "r", "?", "j", "s", "f", "=", "x", "&", "p", "a", "g", "e", "n", "u", "m", "=", "3">>
URL_pagenum_path_3  == <<"h", "t", "t", "p", "s", ":", "/", "/", "a", ".", "g", "o", "v", "/", "p", "r", "/", "p", "a", "g", "e", "n", "u", "m", "/", "3", "/">>

\* A /pagenum/3 segment that ends the url, a PageNum_rs marker without a value,
\* and one whose value is 2.
URL_pagenum_path_3_bare == <<"h", "t", "t", "p", "s", ":", "/", "/", "a", ".", "g", "o", "v", "/", "p", "r", "/", "p", "a", "g", "e", "n", "u", "m", "/", "3">>
URL_PageNum_rs_empty == <<"h", "t", "t", "p", "s", ":", "/", "/", "a", ".", "g", "o", "v", "/", "p", "r", "?", "P", "a", "g", "e", "N", "u", "m", "_", "r", "s", "=">>
URL_PageNum_rs_2 == <<"h", "t", "t", "p", "s", ":", "/", "/", "a", ".", "g", "o", "v", "/", "p", "r", "?", "P", "a", "g", "e", "N", "u", "m", "_", "r", "s", "=", "2">>

PagingUrls ==
    {URL_a, URL_q, URL_jsf_query, URL_jsf_path, URL_page_3, URL_PageNum_rs_12,
     URL_pagenum_query_3, URL_pagenum_path_3, URL_pagenum_path_3_bare,
     URL_PageNum_rs_empty, URL_PageNum_rs_2}

\* href values: site-relative, absolute, the generic listing paths, a path
\* without a leading slash, a non-http scheme, and a missing attribute.
HREF_rel       == <<"/", "p", "/", "1">>
HREF_abs       == <<"h", "t", "t", "p", "s", ":", "/", "/", "e", ".", "c", "o", "m", "/", "p", "/", "2">>
HREF_news      == <<"/", "n", "e", "w", "s">>
HREF_news_     == <<"/", "n", "e", "w", "s", "/">>
HREF_abs_news  == <<"h", "t", "t", "p", "s", ":", "/", "/", "a", ".", "g", "o", "v", "/", "n", "e", "w", "s">>
HREF_noslash   == <<"p", "/", "3">>
HREF_mailto    == <<"m", "a", "i", "l", "t", "o", ":", "x">>

Hrefs ==
    {HREF_rel, HREF_abs, HREF_news, HREF_news_, HREF_abs_news, HREF_noslash,
     HREF_mailto, None}

\* A link's text as the page holds it, and as strip() leaves it.
TITLE_raw == <<"\n", " ", "T", "1", " ">>
TITLE     == <<"T", "1">>

\* d.strftime(fmt) for a date with a four-digit year: how a site writes the
\* date d in the format fmt.
RECURSIVE strftime(_, _)
strftime(d, fmt) ==
    IF fmt = <<>> THEN <<>>
    ELSE LET f == Head(fmt)
             two(n) == <<DigitChar(n \div 10), DigitChar(n % 10)>>
             piece ==
               CASE f = "%m" -> two(d[2])
                 [] f = "%d" -> two(d[3])
                 [] f = "%y" -> two(d[1] % 100)
                 [] f = "%Y" -> two(d[1] \div 100) \o two(d[1] % 100)
                 [] f = "%B" -> <<MonthNames[d[2]]>>
                 [] f = "%b" -> <<MonthAbbrs[d[2]]>>
                 [] OTHER    -> <<f>>
         IN  piece \o strftime(d, Tail(fmt))

AllFormats ==
    {FMT_mdy_slash, FMT_mdY_slash, FMT_mdy_dot, FMT_mdY_dot, FMT_BdY, FMT_bdY,
     FMT_Ymd}

\* Calendar dates, inside and on both sides of the window 1969..2068 that a
\* two-digit year can name.
SampleDates ==
    {<<2024, 1, 15>>, <<1999, 12, 31>>, <<2068, 2, 29>>, <<1969, 1, 1>>,
     <<1968, 12, 31>>, <<2069, 5, 9>>}

\* Texts that are no date in any format.
TEXT_wrong   == <<"W", "r", "o", "n", "g">>
TEXT_feb30   == <<"0", "2", "/", "3", "0", "/", "2", "4">>
TEXT_isotime == <<"2", "0", "2", "4", "-", "0", "1", "-", "1", "5", "T", "1", "0", ":", "0", "0">>
TEXT_empty   == <<>>

JunkTexts == {TEXT_wrong, TEXT_feb30, TEXT_isotime, TEXT_empty}

TEXT_good   == <<"0", "1", "/", "1", "5", "/", "2", "4">>
TEXT_dotted == <<"0", "1", ".", "1", "5", ".", "2", "4">>
TEXT_padded == <<" ", "0", "1", "/", "1", "5", "/", "2", "4", " ">>

DateTexts ==
    {strftime(d, f) : d \in SampleDates, f \in AllFormats}
        \cup JunkTexts \cup {TEXT_padded}

El(tag, class, anc, text, href, datetime) ==
    [tag |-> tag, class |-> class, anc |-> anc, text |-> text, href |-> href,
     datetime |-> datetime]

Box(tag, class, anc, els) == [tag |-> tag, class |-> class, anc |-> anc, els |-> els]

TEXT_x == <<"x">>

\* The link element an extractor looks for, with the href h.
LinkEl(e, h) ==
    CASE e = "jet_listing_elementor"   -> El("a", "", {"h3"}, TITLE_raw, h, None)
      [] e = "article_block_h2_p_date" -> El("a", "", {"h2"}, TITLE_raw, h, None)
      [] e \in {"table_recordlist_date", "table_time"}
                                       -> El("a", "", {"td"}, TITLE_raw, h, None)
      [] OTHER                         -> El("a", "", {}, TITLE_raw, h, None)

\* The date element an extractor looks for, with the text t.
DateEl(e, t) ==
    CASE e = "table_recordlist_date"   -> El("td", "recordListDate", {}, t, None, None)
      [] e = "jet_listing_elementor"   -> El("span", "elementor-icon-list-text", {}, t, None, None)
      [] e = "article_block_h2_p_date" -> El("p", "", {}, t, None, None)
      [] e = "table_time"              -> El("time", "", {"td"}, t, None, None)
      [] e = "element_post_media"      -> El("div", "post-media-list-date", {}, t, None, None)
      [] e = "media_body"              -> El("div", "col-auto", {".row"}, t, None, None)

\* An element no extractor looks for.
PlainEl(e) ==
    IF e \in {"table_recordlist_date", "table_time"}
    THEN El("td", "", {}, TEXT_x, None, None)
    ELSE El("div", "", {}, TEXT_x, None, None)

\* The container of an extractor's markup family, holding els.
Container(e, els) ==
    CASE e = "table_recordlist_date"   -> Box("tr", "", {"table", "tbody"}, els)
      [] e = "jet_listing_elementor"   -> Box("div", "jet-listing-grid__item", {}, els)
      [] e = "article_block_h2_p_date" -> Box("div", "ArticleBlock", {}, els)
      [] e = "table_time"              -> Box("tr", "", {"table"}, els)
      [] e = "element_post_media"      -> Box("div", "element", {}, els)
      [] e = "media_body"              -> Box("div", "media-body", {}, els)

TitleEls(e) ==
    IF e = "element_post_media"
    THEN <<El("div", "post-media-list-title", {}, TITLE_raw, None, None)>>
    ELSE <<>>

\* A container of e's family: link is <<>> (no link element) or <<h>> (a link
\* with href h), date is <<>> (no date element) or <<t>> (one with text t).
MkRow(e, link, date) ==
    Container(e,
        (IF date = <<>> THEN <<PlainEl(e)>> ELSE <<DateEl(e, date[1])>>)
        \o (IF link = <<>> THEN <<>> ELSE <<LinkEl(e, link[1])>>)
        \o TitleEls(e))

\* A container whose date is carried by a <time datetime=dt>text</time>.
MkTimeRow(e, h, dt, text) ==
    Container(e, <<LinkEl(e, h), El("time", "", {}, text, None, dt)>> \o TitleEls(e))

\* A container of element_post_media with a link and a date but no title.
ROW_untitled ==
    Container("element_post_media",
              <<DateEl("element_post_media", TEXT_good),
                LinkEl("element_post_media", HREF_rel)>>)

\* The header row of a table_time table.
ROW_header == Box("tr", "", {"table"}, <<El("th", "", {}, TEXT_x, None, None)>>)

\* The page made of the containers rows (table_time's table has a header row).
Page(e, rows) == IF e = "table_time" THEN <<ROW_header>> \o rows ELSE rows

\* Every sequence over S of length at most n.
SeqsUpTo(S, n) == UNION {[1..k -> S] : k \in 0..n}

\* The structural variants of one container.
StructRows(e) ==
    {MkRow(e, <<HREF_rel>>, <<TEXT_good>>),   \* link and date
     MkRow(e, <<>>, <<TEXT_good>>),           \* no link
     MkRow(e, <<HREF_abs>>, <<>>),            \* no date element
     MkRow(e, <<>>, <<>>),                    \* neither
     MkRow(e, <<None>>, <<TEXT_good>>),       \* a link without href
     MkRow(e, <<HREF_rel>>, <<TEXT_wrong>>)}  \* a date text that is no date
        \cup (IF e = "element_post_media" THEN {ROW_untitled} ELSE {})

\* The page of the spec's end-to-end scenario: two rows with a date cell
\* ("01/15/24", "01.15.24") and a link, one row with neither.
PAGE_three_rows(e) ==
    Page(e, <<MkRow(e, <<HREF_rel>>, <<TEXT_good>>),
              MkRow(e, <<HREF_abs>>, <<TEXT_dotted>>),
              MkRow(e, <<>>, <<>>)>>)

\* test_datetime_attribute's page: a table without a header row.
PAGE_no_header(e) == <<MkTimeRow(e, HREF_rel, strftime(<<2024, 1, 15>>, FMT_Ymd), TEXT_wrong)>>

\* A container whose <p> carries the text ptext and whose <time datetime=dt>
\* carries the text text, in either document order.
MkPTimeRow(e, ptext, dt, text) ==
    Container(e, <<LinkEl(e, HREF_abs), El("p", "", {}, ptext, None, None),
                   El("time", "", {}, text, None, dt)>> \o TitleEls(e))

MkTimePRow(e, ptext, dt, text) ==
    Container(e, <<LinkEl(e, HREF_abs), El("time", "", {}, text, None, dt),
                   El("p", "", {}, ptext, None, None)>> \o TitleEls(e))

TEXT_1999 == <<"1", "2", "/", "3", "1", "/", "1", "9", "9", "9">>
ATTR_1999 == <<"1", "9", "9", "9", "-", "1", "2", "-", "3", "1">>

\* The containers with two date elements, and those whose time element has a
\* display text that is a date next to an attribute that is none (or empty).
TwoDateRows(e) ==
    {MkPTimeRow(e, t, ATTR_1999, TEXT_1999) : t \in {TEXT_good, TEXT_wrong}}
      \cup {MkTimePRow(e, t, ATTR_1999, TEXT_1999) : t \in {TEXT_good, TEXT_wrong}}
      \cup {MkTimeRow(e, HREF_abs, t, TEXT_good) : t \in JunkTexts}

\* A .elementor-widget-wrap container with an h3 link.
ROW_widget_wrap(h) ==
    Box("div", "elementor-widget-wrap", {}, <<El("a", "", {"h3"}, TITLE_raw, h, None)>>)

ROW_jet_item(h) == MkRow("jet_listing_elementor", <<h>>, <<TEXT_good>>)

\* An ArticleBlock with the links h2s under an h2 and h3s under an h3, the
\* h2 links first in the document (h3 links first in ROW_h3_h2).
ROW_h2_h3(h2s, h3s) ==
    Box("div", "ArticleBlock", {},
        <<El("p", "", {}, TEXT_good, None, None)>>
          \o [n \in 1..Len(h2s) |-> El("a", "", {"h2"}, TITLE_raw, h2s[n], None)]
          \o [n \in 1..Len(h3s) |-> El("a", "", {"h3"}, TITLE_raw, h3s[n], None)])

ROW_h3_h2(h2s, h3s) ==
    Box("div", "ArticleBlock", {},
        <<El("p", "", {}, TEXT_good, None, None)>>
          \o [n \in 1..Len(h3s) |-> El("a", "", {"h3"}, TITLE_raw, h3s[n], None)]
          \o [n \in 1..Len(h2s) |-> El("a", "", {"h2"}, TITLE_raw, h2s[n], None)])

\* Pages on which a later selector of a fallback chain matches too: both
\* kinds of jet containers in either order, widget-wrap containers only,
\* blocks with an h2 link and an h3 link, and blocks with an h3 link only.
FallbackPages ==
    {<<ROW_jet_item(HREF_rel), ROW_widget_wrap(HREF_abs)>>,
     <<ROW_widget_wrap(HREF_abs), ROW_jet_item(HREF_rel)>>,
     <<ROW_widget_wrap(HREF_abs), ROW_widget_wrap(HREF_rel)>>,
     <<ROW_h2_h3(<<HREF_rel>>, <<HREF_abs>>)>>,
     <<ROW_h3_h2(<<HREF_rel>>, <<HREF_abs>>)>>,
     <<ROW_h2_h3(<<>>, <<HREF_abs>>)>>,
     <<ROW_h2_h3(<<>>, <<HREF_abs>>), ROW_h2_h3(<<HREF_rel>>, <<>>)>>}

\* The input families of the model: each names the url lists a call may be
\* given and the pages the sites may serve during it.
Webs ==
    {"structure", "dates", "hrefs", "lists", "scenario", "fetch", "paging", "fallback"}

UrlLists(w) ==
    CASE w = "hrefs" -> {<<u>> : u \in Urls}
      [] w = "paging" -> {<<u>> : u \in PagingUrls}
      [] w = "lists" -> SeqsUpTo({URL_a, URL_q}, MaxUrls)
      [] OTHER       -> {<<URL_a>>}

Pages(e, w) ==
    CASE w = "structure" ->
           \* every page of at most MaxRows structural containers
           {Page(e, r) : r \in SeqsUpTo(StructRows(e), MaxRows)}
      [] w = "dates" ->
           \* one container with each date text
           {Page(e, <<MkRow(e, <<HREF_abs>>, <<t>>)>>) : t \in DateTexts}
             \cup {Page(e, <<MkTimeRow(e, HREF_abs, t, TEXT_wrong)>>) : t \in DateTexts}
             \* a datetime attribute next to a display text that is a date too
             \cup {Page(e, <<MkTimeRow(e, HREF_abs, strftime(d, FMT_Ymd), TEXT_good)>>) :
                      d \in SampleDates}
             \cup {Page(e, <<r>>) : r \in TwoDateRows(e)}
      [] w = "hrefs" ->
           \* one container with each href
           {Page(e, <<MkRow(e, <<h>>, <<TEXT_good>>)>>) : h \in Hrefs}
      [] w = "lists" ->
           {Page(e, <<MkRow(e, <<HREF_rel>>, <<TEXT_good>>)>>),
            Page(e, <<MkRow(e, <<>>, <<TEXT_good>>),
                      MkRow(e, <<HREF_abs>>, <<TEXT_good>>)>>)}
      [] w = "scenario" ->
           \* the pages of the spec's scenario and of the tests
           {PAGE_three_rows(e), PAGE_no_header(e)}
      [] w = "fallback" ->
           {Page(e, r) : r \in FallbackPages}
      [] w \in {"fetch", "paging", "frame_up"} ->
           {Page(e, <<MkRow(e, <<HREF_rel>>, <<TEXT_good>>)>>)}

\* The exceptions of requests.get, and the status codes of its responses.
RequestErrors == {"ConnectionError", "Timeout"}
StatusCodes   == {200, 404, 500}

\* The request that met no server.
FailedRequest(error) == Response(error, 0, Unparsed, Unparsed)

\* What the requests of a call may meet.  In the family "fetch": every
\* outcome of the request for one page (each error, each status code, each
\* parser taking the body or not).  Elsewhere: a page served with status 200
\* that lxml parses, or a connection error.
Responses(e, w) ==
    IF w = "fetch"
    THEN {FailedRequest(error) : error \in RequestErrors}
           \cup {Response("", status, lxml, html_parser) :
                    status \in StatusCodes,
                    lxml \in {Parsed(d) : d \in Pages(e, w)} \cup {Unparsed},
                    html_parser \in {Parsed(d) : d \in Pages(e, w)} \cup {Unparsed}}
    ELSE IF w = "frame_down"
    THEN {FailedRequest("ConnectionError")}
    ELSE IF w = "frame_up"
    THEN {Response("", 200, Parsed(d), Parsed(d)) : d \in Pages(e, w)}
    ELSE {Response("", 200, Parsed(d), Parsed(d)) : d \in Pages(e, w)}
           \cup {FailedRequest("ConnectionError")}

\* Before the first request.
NoResponse == FailedRequest("")

(***************************************************************************)
(* The state of one call.                                                  *)
(***************************************************************************)

VARIABLES
    ex,          \* the extractor called
    urls,        \* its urls argument
    page,        \* its page argument
    web,         \* the input family: what the sites serve during the call
    pc,          \* "loop": at "for url in urls"; "rows": at "for row in rows";
                 \* "done": returned results; "raised": left by an exception
    i,           \* the index in urls of the current url
    domain,      \* the local domain
    source_url,  \* the local source_url
    rows,        \* the containers selected from the fetched document
    j,           \* the index in rows of the current row
    results,     \* the local results
    fetched,     \* the calls of open_html so far, in order: the url each was
                 \* given and whether it returned a document (ok) or None
    response,    \* what the last request met
    legislator_info,  \* the argument of scrape_with_known_scrapers
    scraper_func,     \* its local scraper_func
    caller_urls,      \* the list the caller of successive calls holds
    observed          \* the calls the caller made: the method, whether its list
                      \* was passed, and the list the call went through

vars == <<ex, urls, page, web, pc, i, domain, source_url, rows, j, results, fetched,
          response, legislator_info, scraper_func, caller_urls, observed>>

\* What a call of an extractor never touches.
dispatchVars == <<legislator_info, scraper_func, caller_urls, observed>>

Init ==
    /\ ex \in Extractors
    /\ web \in Webs
    /\ urls \in UrlLists(web)
    /\ page \in 1..MaxPage
    /\ pc = "loop"
    /\ i = 1
    /\ domain = <<>>
    /\ source_url = <<>>
    /\ rows = <<>>
    /\ j = 1
    /\ results = <<>>
    /\ fetched = <<>>
    /\ response = NoResponse
    /\ legislator_info = None
    /\ scraper_func = None
    /\ caller_urls = None
    /\ observed = <<>>

\* The head of "for url in urls" up to the return of open_html, with a
\* document (ok) or with None.
BeginUrl(ok) ==
    /\ pc = "loop"
    /\ i <= Len(urls)
    /\ domain' = urlparse(urls[i]).netloc
    /\ source_url' = SourceUrl(ex, urls[i], page)
    /\ fetched' = Append(fetched, [url |-> SourceUrl(ex, urls[i], page), ok |-> ok])

\* open_html returns a document: the containers are selected.
FetchOk ==
    /\ BeginUrl(TRUE)
    /\ \E resp \in Responses(ex, web) :
         /\ ~open_html(resp).none
         /\ response' = resp
         /\ rows' = Rows(ex, open_html(resp).doc)
         /\ j' = 1
         /\ pc' = "rows"
    /\ UNCHANGED <<ex, urls, page, web, i, results, dispatchVars>>

\* A fetch failure that would be dereferenced instead of tested.
FetchNone_as_raise ==
    /\ BeginUrl(FALSE)
    /\ \E resp \in Responses(ex, web) :
         /\ open_html(resp).none
         /\ response' = resp
    /\ pc' = "raised"
    /\ UNCHANGED <<ex, urls, page, web, i, rows, j, results, dispatchVars>>

\* open_html returns None: "if not doc: continue".
FetchNone ==
    /\ BeginUrl(FALSE)
    /\ \E resp \in Responses(ex, web) :
         /\ open_html(resp).none
         /\ response' = resp
    /\ i' = i + 1
    /\ UNCHANGED <<ex, urls, page, web, pc, rows, j, results, dispatchVars>>

\* One pass of "for row in rows" that ends in continue.
RowContinue ==
    /\ pc = "rows"
    /\ j <= Len(rows)
    /\ RowBody(ex, rows[j], urls[i], domain).kind = "continue"
    /\ j' = j + 1
    /\ UNCHANGED <<ex, urls, page, web, pc, i, domain, source_url, rows, results, fetched,
                   response, dispatchVars>>

\* A pass that would drop a record the results hold already.
RowAppend_deduplicating ==
    /\ pc = "rows"
    /\ j <= Len(rows)
    /\ RowBody(ex, rows[j], urls[i], domain).kind = "append"
    /\ results' = IF \E k \in 1..Len(results) :
                         results[k] = RowBody(ex, rows[j], urls[i], domain).result
                  THEN results
                  ELSE Append(results, RowBody(ex, rows[j], urls[i], domain).result)
    /\ j' = j + 1
    /\ UNCHANGED <<ex, urls, page, web, pc, i, domain, source_url, rows, fetched,
                   response, dispatchVars>>

\* One pass that ends in results.append(result).
RowAppend ==
    /\ pc = "rows"
    /\ j <= Len(rows)
    /\ RowBody(ex, rows[j], urls[i], domain).kind = "append"
    /\ results' = Append(results, RowBody(ex, rows[j], urls[i], domain).result)
    /\ j' = j + 1
    /\ UNCHANGED <<ex, urls, page, web, pc, i, domain, source_url, rows, fetched,
                   response, dispatchVars>>

\* One pass that raises: the exception is caught nowhere and ends the call.
RowRaise ==
    /\ pc = "rows"
    /\ j <= Len(rows)
    /\ RowBody(ex, rows[j], urls[i], domain).kind = "raise"
    /\ pc' = "raised"
    /\ UNCHANGED <<ex, urls, page, web, i, domain, source_url, rows, j, results, fetched,
                   response, dispatchVars>>

\* The row loop is exhausted: on to the next url.
EndRows ==
    /\ pc = "rows"
    /\ j > Len(rows)
    /\ i' = i + 1
    /\ pc' = "loop"
    /\ UNCHANGED <<ex, urls, page, web, domain, source_url, rows, j, results, fetched,
                   response, dispatchVars>>

\* The url loop is exhausted: "return results".
Return ==
    /\ pc = "loop"
    /\ i > Len(urls)
    /\ pc' = "done"
    /\ UNCHANGED <<ex, urls, page, web, i, domain, source_url, rows, j, results, fetched,
                   response, dispatchVars>>

Next ==
    \/ FetchOk
    \/ FetchNone
    \/ RowContinue
    \/ RowAppend
    \/ RowRaise
    \/ EndRows
    \/ Return

Spec == Init /\ [][Next]_vars

(***************************************************************************)
(* Scraper.react: the posts in the __NEXT_DATA__ payload of each domain's  *)
(* press page.                                                             *)
(***************************************************************************)

(*--------------------------- decoded JSON values -------------------------*)

\* What json.loads yields: None, a number, a str (s: its characters), a list
\* (items) or a dict (fields: its keys with their values, in order).
JNull        == [t |-> "null",   s |-> <<>>, items |-> <<>>,    fields |-> <<>>]
JNum         == [t |-> "number", s |-> <<>>, items |-> <<>>,    fields |-> <<>>]
JStr(s)      == [t |-> "string", s |-> s,    items |-> <<>>,    fields |-> <<>>]
JList(items) == [t |-> "list",   s |-> <<>>, items |-> items,   fields |-> <<>>]
JObj(fields) == [t |-> "object", s |-> <<>>, items |-> <<>>,    fields |-> fields]

Field(k, v) == [k |-> k, v |-> v]

JEmptyObj == JObj(<<>>)

\* k in d, and d[k], for a dict d.
HasKey(d, k) == \E n \in 1..Len(d.fields) : d.fields[n].k = k
ValueAt(d, k) == d.fields[CHOOSE n \in 1..Len(d.fields) : d.fields[n].k = k].v

\* The outcome of a subscription: its value, or the exception it raises.
Got(v)       == [exc |-> "", val |-> v]
Raises(name) == [exc |-> name, val |-> JNull]

\* x[k] for a str k: a dict has the key or raises KeyError; a list or a str
\* takes no str index, None and a number no subscript at all (TypeError).
getitem_key(x, k) ==
    IF x.t = "object"
    THEN IF HasKey(x, k) THEN Got(ValueAt(x, k)) ELSE Raises("KeyError")
    ELSE Raises("TypeError")

\* x[n] for an int n >= 0: a list and a str are indexed from 0 or raise
\* IndexError; a decoded dict has str keys only (KeyError); None and a number
\* have no subscript (TypeError).
getitem_index(x, n) ==
    CASE x.t = "list"   -> IF n < Len(x.items) THEN Got(x.items[n + 1])
                           ELSE Raises("IndexError")
      [] x.t = "string" -> IF n < Len(x.s) THEN Got(JStr(<<x.s[n + 1]>>))
                           ELSE Raises("IndexError")
      [] x.t = "object" -> Raises("KeyError")
      [] OTHER          -> Raises("TypeError")

Key(k)   == [kind |-> "key",   key |-> k,  index |-> 0]
Index(n) == [kind |-> "index", key |-> "", index |-> n]

getitem(x, step) ==
    IF step.kind = "key" THEN getitem_key(x, step.key)
    ELSE getitem_index(x, step.index)

\* The query of the dehydrated state that holds the posts.
PostsQuery == 11

\* json_data['props']['pageProps']['dehydratedState']['queries'][11]
\*          ['state']['data']['posts']['edges']
PostsPath ==
    <<Key("props"), Key("pageProps"), Key("dehydratedState"), Key("queries"),
      Index(PostsQuery), Key("state"), Key("data"), Key("posts"), Key("edges")>>

\* A path followed from x: the value at its end, or the first exception.
RECURSIVE subscript(_, _)
subscript_rest(r, path) == IF r.exc # "" THEN r ELSE subscript(r.val, path)

subscript(x, path) ==
    IF path = <<>> THEN Got(x) ELSE subscript_rest(getitem(x, Head(path)), Tail(path))

\* iter(x): the items of a list, the characters of a str, the keys of a
\* dict; None and a number are not iterable (TypeError).
iterate(x) ==
    CASE x.t = "list"   -> Got(x.items)
      [] x.t = "string" -> Got([n \in 1..Len(x.s) |-> JStr(<<x.s[n]>>)])
      [] x.t = "object" -> Got([n \in 1..Len(x.fields) |-> JStr(<<x.fields[n].k>>)])
      [] OTHER          -> Raises("TypeError")

\* d.get(k, default) on a dict d.
dict_get(d, k, default) == IF HasKey(d, k) THEN ValueAt(d, k) ELSE default

\* bool(x)
truthy(x) ==
    CASE x.t = "null"   -> FALSE
      [] x.t = "string" -> x.s # <<>>
      [] x.t = "list"   -> x.items # <<>>
      [] x.t = "object" -> x.fields # <<>>
      [] OTHER          -> TRUE

\* The Python value a record field holds for a decoded value: the str
\* itself, None for null, and for the others a value that is no str.
field_value(x) ==
    CASE x.t = "string" -> x.s
      [] x.t = "null"   -> None
      [] OTHER          -> <<x.t>>

(*------------------------ datetime.fromisoformat -------------------------*)

\* s.replace(a, b) for a one-character a and any b.
RECURSIVE ReplaceChar(_, _, _)
ReplaceChar(s, a, b) ==
    IF s = <<>> THEN <<>>
    ELSE (IF Head(s) = a THEN b ELSE <<Head(s)>>) \o ReplaceChar(Tail(s), a, b)

S_utc_offset == <<"+", "0", "0", ":", "0", "0">>

\* HH:MM:SS after the "T", with nothing or a +00:00 offset behind it.
IsIsoTime(s) ==
    /\ Len(s) \in {9, 15}
    /\ s[1] = "T"
    /\ \A n \in {2, 3, 5, 6, 8, 9} : s[n] \in Digits
    /\ s[4] = ":" /\ s[7] = ":"
    /\ DigitVal(s[2]) * 10 + DigitVal(s[3]) < 24
    /\ DigitVal(s[5]) < 6 /\ DigitVal(s[8]) < 6
    /\ Len(s) = 15 => SubSeq(s, 10, 15) = S_utc_offset

\* datetime.datetime.fromisoformat(s).date(): YYYY-MM-DD with two-digit month
\* and day, alone or followed by a time; anything else is a ValueError.
fromisoformat_date(s) ==
    IF /\ Len(s) >= 10
       /\ s[5] = "-" /\ s[8] = "-"
       /\ \A n \in {1, 2, 3, 4, 6, 7, 9, 10} : s[n] \in Digits
       /\ (Len(s) = 10 \/ IsIsoTime(SubSeq(s, 11, Len(s))))
    THEN strptime(SubSeq(s, 1, 10), FMT_Ymd)
    ELSE ValueError

\* "except ValueError: pass" leaves date = None.
react_date_of(parsed) == IF parsed = ValueError THEN None ELSE parsed

\* date = None; if date_str: try: date = fromisoformat(date_str.replace('Z',
\* '+00:00')).date().  A truthy date_str that is no str has no replace.
react_date(date_str) ==
    IF ~truthy(date_str) THEN None
    ELSE react_date_of(fromisoformat_date(ReplaceChar(date_str.s, "Z", S_utc_offset)))

(*------------------------------ the method -------------------------------*)

S_https == <<"h", "t", "t", "p", "s", ":", "/", "/">>
S_press == <<"/", "p", "r", "e", "s", "s">>

\* url = f"https://{domain}/press"
react_url(d) == S_https \o d \o S_press

\* The text of the element with id __NEXT_DATA__: the value it encodes
\* (json: TRUE) or a text json.loads rejects with JSONDecodeError.
JsonText(value) == [json |-> TRUE, value |-> value]
NotJsonText     == [json |-> FALSE, value |-> JNull]

\* A press page: its elements that carry an id, in document order.
Script(id, text) == [id |-> id, text |-> text]
NoScript == Script("", NotJsonText)

ReactDoc(text)   == <<Script("other", NotJsonText), Script("__NEXT_DATA__", text)>>
ReactDocNoScript == <<Script("other", NotJsonText)>>

\* doc.select_one('[id="..."]'): the first element with the id, or None.
select_one_id(doc, id) ==
    IF \E n \in 1..Len(doc) : doc[n].id = id
    THEN doc[MinOf({n \in 1..Len(doc) : doc[n].id = id})]
    ELSE NoScript

\* json_data = json.loads(next_data_script.text)
json_loads(text) == IF text.json THEN Got(text.value) ELSE Raises("JSONDecodeError")

\* The first two statements of the try block: the posts to loop over, or the
\* exception met on the way ("for post in posts" iterates posts).
react_posts_of(loaded) ==
    IF loaded.exc # "" THEN loaded ELSE subscript(loaded.val, PostsPath)

react_iter_of(posts) == IF posts.exc # "" THEN posts ELSE iterate(posts.val)

react_posts(text) == react_iter_of(react_posts_of(json_loads(text)))

\* except (json.JSONDecodeError, KeyError, IndexError)
react_caught == {"JSONDecodeError", "KeyError", "IndexError"}

\* The rest of the loop body once node is a dict.
react_result(node, url, d) ==
    IF truthy(dict_get(node, "date", JNull)) /\ dict_get(node, "date", JNull).t # "string"
    THEN Raise
    ELSE AppendOf(url,
                  field_value(dict_get(node, "link", JStr(<<>>))),
                  field_value(dict_get(node, "title", JStr(<<>>))),
                  react_date(dict_get(node, "date", JNull)),
                  d)

react_node(node, url, d) ==
    IF node.t # "object" THEN Raise ELSE react_result(node, url, d)

\* One pass of "for post in posts": node = post.get('node', {}) needs post
\* to be a dict, node.get needs node to be one (AttributeError otherwise).
react_post(post, url, d) ==
    IF post.t # "object" THEN Raise
    ELSE react_node(dict_get(post, "node", JEmptyObj), url, d)

(*------------------------------ its inputs -------------------------------*)

DOMAIN_a == <<"a", ".", "h", "o", "u", "s", "e", ".", "g", "o", "v">>
DOMAIN_b == <<"b", ".", "h", "o", "u", "s", "e", ".", "g", "o", "v">>

DATE_iso_z == <<"2", "0", "2", "4", "-", "0", "1", "-", "1", "5", "T",
                "1", "0", ":", "0", "0", ":", "0", "0", "Z">>
DATE_iso   == <<"2", "0", "2", "4", "-", "0", "1", "-", "1", "5">>
DATE_slash == <<"0", "1", "/", "1", "5", "/", "2", "4">>
LINK_1     == <<"h", "t", "t", "p", "s", ":", "/", "/", "a", ".", "h", "o", "u", "s", "e",
                ".", "g", "o", "v", "/", "p", "/", "1">>
TITLE_padded == <<" ", "T", "1", " ">>
TITLE_plain  == <<"T", "1">>

Node(date, link, title) ==
    JObj(<<Field("date", date), Field("link", JStr(link)), Field("title", title)>>)

Post(node) == JObj(<<Field("node", node)>>)

POST_plain      == Post(Node(JStr(DATE_iso), LINK_1, JStr(TITLE_plain)))
POST_padded     == Post(Node(JStr(DATE_iso_z), LINK_1, JStr(TITLE_padded)))
POST_slash_date == Post(Node(JStr(DATE_slash), LINK_1, JStr(TITLE_plain)))
POST_null_title == Post(Node(JNull, LINK_1, JNull))
POST_num_date   == Post(Node(JNum, LINK_1, JStr(TITLE_plain)))
POST_no_node    == JEmptyObj
POST_null_node  == Post(JNull)
POST_null       == JNull

ReactPosts ==
    {POST_plain, POST_padded, POST_slash_date, POST_null_title, POST_num_date,
     POST_no_node, POST_null_node, POST_null}

\* The value that holds inner at the end of one step.
WrapStep(step, inner) ==
    IF step.kind = "key" THEN JObj(<<Field(step.key, inner)>>)
    ELSE JList([n \in 1..(step.index + 1) |-> IF n = step.index + 1 THEN inner ELSE JNull])

\* The value that holds leaf at the end of path.
RECURSIVE Wrap(_, _)
Wrap(path, leaf) ==
    IF path = <<>> THEN leaf ELSE WrapStep(Head(path), Wrap(Tail(path), leaf))

\* A well-formed payload with the given posts.
Payload(posts) == Wrap(PostsPath, JList(posts))

\* What a malformed payload holds where the path expects a dict or a list:
\* null, a number, a str, an empty list, a dict without the key.
Malformed == {JNull, JNum, JStr(<<"x">>), JList(<<>>), JEmptyObj}

\* The payloads that follow the path for its first depth steps only.
MalformedPayloads ==
    {Wrap(SubSeq(PostsPath, 1, depth), bad) :
        depth \in 0..(Len(PostsPath) - 1), bad \in Malformed}
      \cup {Wrap(PostsPath, bad) : bad \in {JNull, JNum, JStr(<<"x">>)}}

\* The input families of react: "payload" (several domains, every malformed
\* payload between well-formed ones) and "posts" (one domain, every list of
\* posts).
ReactWebs == {"payload", "posts"}

ReactDomains(w) ==
    IF w = "payload" THEN SeqsUpTo({DOMAIN_a, DOMAIN_b}, MaxUrls)
    ELSE {<<DOMAIN_a>>}

ReactDocs(w) ==
    IF w = "payload"
    THEN {ReactDoc(JsonText(p)) : p \in MalformedPayloads}
           \cup {ReactDoc(NotJsonText), ReactDocNoScript,
                 ReactDoc(JsonText(Payload(<<POST_plain>>)))}
    ELSE {ReactDoc(JsonText(Payload(ps))) : ps \in SeqsUpTo(ReactPosts, MaxRows)}

ReactResponses(w) ==
    {Response("", 200, Parsed(d), Parsed(d)) : d \in ReactDocs(w)}
      \cup {FailedRequest("ConnectionError")}

(*------------------------------ its steps --------------------------------*)

ReactInit ==
    /\ ex = "react"
    /\ web \in ReactWebs
    /\ urls \in ReactDomains(web)
    /\ page = 1
    /\ pc = "loop"
    /\ i = 1
    /\ domain = <<>>
    /\ source_url = <<>>
    /\ rows = <<>>
    /\ j = 1
    /\ results = <<>>
    /\ fetched = <<>>
    /\ response = NoResponse
    /\ legislator_info = None
    /\ scraper_func = None
    /\ caller_urls = None
    /\ observed = <<>>

\* At the head of "for domain in domains", with a domain left.
AtDomain == pc = "loop" /\ i <= Len(urls)

\* From there up to the return of open_html.
ReactBegin(resp) ==
    /\ domain' = urls[i]
    /\ source_url' = react_url(urls[i])
    /\ fetched' = Append(fetched, [url |-> react_url(urls[i]), ok |-> ~open_html(resp).none])
    /\ response' = resp

\* The text of the payload element of the page a response carries.
NextDataOf(resp) == select_one_id(open_html(resp).doc, "__NEXT_DATA__")

\* "if not doc: continue"
ReactFetchNone ==
    /\ AtDomain
    /\ \E resp \in ReactResponses(web) :
         /\ open_html(resp).none
         /\ ReactBegin(resp)
    /\ i' = i + 1
    /\ UNCHANGED <<ex, urls, page, web, pc, rows, j, results, dispatchVars>>

\* "if not next_data_script: continue"
ReactNoScript ==
    /\ AtDomain
    /\ \E resp \in ReactResponses(web) :
         /\ ~open_html(resp).none
         /\ NextDataOf(resp) = NoScript
         /\ ReactBegin(resp)
    /\ i' = i + 1
    /\ UNCHANGED <<ex, urls, page, web, pc, rows, j, results, dispatchVars>>

\* json.loads or the path raises an exception the except clause names: the
\* message is printed and the domain loop goes on.
ReactCaught ==
    /\ AtDomain
    /\ \E resp \in ReactResponses(web) :
         /\ ~open_html(resp).none
         /\ NextDataOf(resp) # NoScript
         /\ react_posts(NextDataOf(resp).text).exc \in react_caught
         /\ ReactBegin(resp)
    /\ i' = i + 1
    /\ UNCHANGED <<ex, urls, page, web, pc, rows, j, results, dispatchVars>>

\* The path or the iteration raises an exception the except clause does not
\* name: it leaves react.
ReactUncaught ==
    /\ AtDomain
    /\ \E resp \in ReactResponses(web) :
         /\ ~open_html(resp).none
         /\ NextDataOf(resp) # NoScript
         /\ react_posts(NextDataOf(resp).text).exc \notin react_caught \cup {""}
         /\ ReactBegin(resp)
    /\ pc' = "raised"
    /\ UNCHANGED <<ex, urls, page, web, i, rows, j, results, dispatchVars>>

\* posts is reached and iterable: "for post in posts" begins.
ReactPosts_begin ==
    /\ AtDomain
    /\ \E resp \in ReactResponses(web) :
         /\ ~open_html(resp).none
         /\ NextDataOf(resp) # NoScript
         /\ react_posts(NextDataOf(resp).text).exc = ""
         /\ ReactBegin(resp)
         /\ rows' = react_posts(NextDataOf(resp).text).val
    /\ j' = 1
    /\ pc' = "rows"
    /\ UNCHANGED <<ex, urls, page, web, i, results, dispatchVars>>

\* One pass of "for post in posts" that ends in results.append(result).
ReactPostAppend ==
    /\ pc = "rows"
    /\ j <= Len(rows)
    /\ react_post(rows[j], source_url, domain).kind = "append"
    /\ results' = Append(results, react_post(rows[j], source_url, domain).result)
    /\ j' = j + 1
    /\ UNCHANGED <<ex, urls, page, web, pc, i, domain, source_url, rows, fetched,
                   response, dispatchVars>>

\* One pass that raises AttributeError, which the except clause does not
\* name: it leaves react.
ReactPostRaise ==
    /\ pc = "rows"
    /\ j <= Len(rows)
    /\ react_post(rows[j], source_url, domain).kind = "raise"
    /\ pc' = "raised"
    /\ UNCHANGED <<ex, urls, page, web, i, domain, source_url, rows, j, results, fetched,
                   response, dispatchVars>>

ReactNext ==
    \/ ReactFetchNone
    \/ ReactNoScript
    \/ ReactCaught
    \/ ReactUncaught
    \/ ReactPosts_begin
    \/ ReactPostAppend
    \/ ReactPostRaise
    \/ EndRows
    \/ Return

ReactSpec == ReactInit /\ [][ReactNext]_vars

(***************************************************************************)
(* fetch_legislators.scrape_with_known_scrapers: the scraper registered    *)
(* for a legislator, if any, is run.                                       *)
(***************************************************************************)

N_crapo    == <<"c", "r", "a", "p", "o">>
N_shaheen  == <<"s", "h", "a", "h", "e", "e", "n">>
N_scott    == <<"s", "c", "o", "t", "t">>
N_king     == <<"k", "i", "n", "g">>
N_bera     == <<"b", "e", "r", "a">>
N_meeks    == <<"m", "e", "e", "k", "s">>
N_steube   == <<"s", "t", "e", "u", "b", "e">>
N_barragan == <<"b", "a", "r", "r", "a", "g", "a", "n">>
N_castor   == <<"c", "a", "s", "t", "o", "r">>
N_marshall == <<"m", "a", "r", "s", "h", "a", "l", "l">>
N_hawley   == <<"h", "a", "w", "l", "e", "y">>
N_barrasso == <<"b", "a", "r", "r", "a", "s", "s", "o">>
N_sykes    == <<"s", "y", "k", "e", "s">>
N_tim      == <<"t", "i", "m">>
N_angus    == <<"a", "n", "g", "u", "s">>
N_Scott    == <<"S", "c", "o", "t", "t">>
N_King     == <<"K", "i", "n", "g">>
N_Crapo    == <<"C", "r", "a", "p", "o">>
N_Smith    == <<"S", "m", "i", "t", "h">>
N_Tim      == <<"T", "i", "m">>
N_Rick     == <<"R", "i", "c", "k">>
N_Angus    == <<"A", "n", "g", "u", "s">>

\* A method of Scraper, as a value of scraper_map.
ScraperMethod(name) == <<name>>

\* An entry of scraper_map.
Registered(key, method) == [key |-> key, method |-> method]

\* A lookup that would give 'scott' and 'king' their scraper whatever the
\* first name.
scraper_map_any_first_name(info) ==
    <<Registered(N_crapo, ScraperMethod("crapo")),
      Registered(N_shaheen, ScraperMethod("shaheen")),
      Registered(N_scott, ScraperMethod("timscott")),
      Registered(N_king, ScraperMethod("angusking")),
      Registered(N_bera, ScraperMethod("bera")),
      Registered(N_meeks, ScraperMethod("meeks")),
      Registered(N_steube, ScraperMethod("steube")),
      Registered(N_barragan, ScraperMethod("barragan")),
      Registered(N_castor, ScraperMethod("castor")),
      Registered(N_marshall, ScraperMethod("marshall")),
      Registered(N_hawley, ScraperMethod("hawley")),
      Registered(N_barrasso, ScraperMethod("barrasso")),
      Registered(N_sykes, ScraperMethod("sykes"))>>

\* scraper_map, built for one legislator_info.
scraper_map(info) ==
    <<Registered(N_crapo, ScraperMethod("crapo")),
      Registered(N_shaheen, ScraperMethod("shaheen")),
      Registered(N_scott, IF Lower(info.first_name) = N_tim
                          THEN ScraperMethod("timscott") ELSE None),
      Registered(N_king, IF Lower(info.first_name) = N_angus
                         THEN ScraperMethod("angusking") ELSE None),
      Registered(N_bera, ScraperMethod("bera")),
      Registered(N_meeks, ScraperMethod("meeks")),
      Registered(N_steube, ScraperMethod("steube")),
      Registered(N_barragan, ScraperMethod("barragan")),
      Registered(N_castor, ScraperMethod("castor")),
      Registered(N_marshall, ScraperMethod("marshall")),
      Registered(N_hawley, ScraperMethod("hawley")),
      Registered(N_barrasso, ScraperMethod("barrasso")),
      Registered(N_sykes, ScraperMethod("sykes"))>>

\* m.get(k): the value of the key, None without it.
map_get(m, k) ==
    IF \E n \in 1..Len(m) : m[n].key = k
    THEN m[CHOOSE n \in 1..Len(m) : m[n].key = k].method
    ELSE None

\* scraper_func = scraper_map.get(legislator_info['last_name'].lower())
scraper_func_of(info) == map_get(scraper_map(info), Lower(info.last_name))

\* The legislators dispatched: every registered last name, in lower case and
\* capitalised, and names without a scraper, with several first names.
LastNames ==
    {N_crapo, N_shaheen, N_scott, N_king, N_bera, N_meeks, N_steube, N_barragan,
     N_castor, N_marshall, N_hawley, N_barrasso, N_sykes,
     N_Scott, N_King, N_Crapo, N_Smith, <<>>}

FirstNames == {N_Tim, N_tim, N_Rick, N_Angus, <<>>}

LegislatorInfos ==
    {[last_name |-> l, first_name |-> f] : l \in LastNames, f \in FirstNames}

\* The address a scraper method requests (each method has its own).
ScraperUrl(method) == <<"page of">> \o method

\* What a scraper method may return: no record, or the records of its page.
ScraperResults(method) ==
    {<<>>,
     <<[source |-> ScraperUrl(method), url |-> HREF_abs, title |-> TEXT_good,
        date |-> None, domain |-> <<>>]>>}

DispatchInit ==
    /\ ex = "scrape_with_known_scrapers"
    /\ web = "dispatch"
    /\ urls = <<>>
    /\ page = 1
    /\ pc = "call"
    /\ i = 1
    /\ domain = <<>>
    /\ source_url = <<>>
    /\ rows = <<>>
    /\ j = 1
    /\ results = <<>>
    /\ fetched = <<>>
    /\ response = NoResponse
    /\ legislator_info \in LegislatorInfos
    /\ scraper_func = None
    /\ caller_urls = None
    /\ observed = <<>>

\* The call up to "if scraper_func:".
DispatchLookup ==
    /\ pc = "call"
    /\ scraper_func' = scraper_func_of(legislator_info)
    /\ UNCHANGED <<ex, urls, page, web, i, domain, source_url, rows, j, response,
                   legislator_info, caller_urls, observed>>

\* A scraper is registered and returns: "results = scraper_func(); return
\* results".  The method requests its page.
DispatchScraperReturns ==
    /\ DispatchLookup
    /\ scraper_func_of(legislator_info) # None
    /\ \E ok \in BOOLEAN :
         fetched' = Append(fetched, [url |-> ScraperUrl(scraper_func_of(legislator_info)),
                                     ok |-> ok])
    /\ results' \in ScraperResults(scraper_func_of(legislator_info))
    /\ pc' = "done"

\* A scraper is registered and raises: "except Exception" prints the error
\* and the call ends in "return []".
DispatchScraperRaises ==
    /\ DispatchLookup
    /\ scraper_func_of(legislator_info) # None
    /\ \E ok \in BOOLEAN :
         fetched' = Append(fetched, [url |-> ScraperUrl(scraper_func_of(legislator_info)),
                                     ok |-> ok])
    /\ results' = <<>>
    /\ pc' = "done"

\* No scraper is registered: "return []".
DispatchNoScraper ==
    /\ DispatchLookup
    /\ scraper_func_of(legislator_info) = None
    /\ results' = <<>>
    /\ pc' = "done"
    /\ UNCHANGED fetched

DispatchNext ==
    \/ DispatchScraperReturns
    \/ DispatchScraperRaises
    \/ DispatchNoScraper

DispatchSpec == DispatchInit /\ [][DispatchNext]_vars

(***************************************************************************)
(* Scraper.senate_drupal and Scraper.senate_drupal_newscontent: the date   *)
(* of a release stands two siblings before its title h2.                   *)
(***************************************************************************)

DrupalExtractors == {"senate_drupal", "senate_drupal_newscontent"}

\* A child of #newscontent: an h2 (with the href of its link when link is
\* TRUE), another tag, or a text node between two tags.
Sibling(kind, text, link, href) == [kind |-> kind, text |-> text, link |-> link, href |-> href]

\* The index of the node before the node at k among its siblings, 0 for None:
\* node.previous_sibling.
previous_sibling(k) == IF k > 0 THEN k - 1 ELSE 0

\* bool(node) for the node at k of doc: None is false, a Tag is true, a text
\* node is true unless it is empty.
node_truthy(doc, k) == k > 0 /\ (doc[k].kind = "text" => doc[k].text # <<>>)

\* A walk that would stop one sibling before the h2.
one_back(doc, k) == previous_sibling(k)

\* prev = row.previous_sibling
\* if prev: prev = prev.previous_sibling
two_back(doc, k) ==
    IF node_truthy(doc, previous_sibling(k))
    THEN previous_sibling(previous_sibling(k))
    ELSE previous_sibling(k)

\* raw_date = prev.text if prev else None
drupal_raw_date_at(doc, prev) == IF node_truthy(doc, prev) THEN doc[prev].text ELSE None

drupal_raw_date(doc, k) == drupal_raw_date_at(doc, two_back(doc, k))

\* s.replace(a, b) for strings a and b, scanning from position k.
RECURSIVE ReplaceFrom(_, _, _, _)
ReplaceFrom(s, k, a, b) ==
    IF k > Len(s) THEN <<>>
    ELSE IF HasAt(s, k, a) THEN b \o ReplaceFrom(s, k + Len(a), a, b)
    ELSE <<s[k]>> \o ReplaceFrom(s, k + 1, a, b)

ReplaceStr(s, a, b) == ReplaceFrom(s, 1, a, b)

D_tomudall ==
    <<"w", "w", "w", ".", "t", "o", "m", "u", "d", "a", "l", "l", ".", "s", "e", "n",
      "a", "t", "e", ".", "g", "o", "v">>
D_vanhollen ==
    <<"w", "w", "w", ".", "v", "a", "n", "h", "o", "l", "l", "e", "n", ".", "s", "e",
      "n", "a", "t", "e", ".", "g", "o", "v">>
D_warren ==
    <<"w", "w", "w", ".", "w", "a", "r", "r", "e", "n", ".", "s", "e", "n", "a", "t",
      "e", ".", "g", "o", "v">>
D_mcconnell ==
    <<"m", "c", "c", "o", "n", "n", "e", "l", "l", ".", "s", "e", "n", "a", "t", "e",
      ".", "g", "o", "v">>
D_republicanleader ==
    <<"w", "w", "w", ".", "r", "e", "p", "u", "b", "l", "i", "c", "a", "n", "l", "e",
      "a", "d", "e", "r", ".", "s", "e", "n", "a", "t", "e", ".", "g", "o", "v">>
URL_republicanleader ==
    <<"h", "t", "t", "p", "s", ":", "/", "/", "w", "w", "w", ".", "r", "e", "p", "u",
      "b", "l", "i", "c", "a", "n", "l", "e", "a", "d", "e", "r", ".", "s", "e",
      "n", "a", "t", "e", ".", "g", "o", "v", "/", "n", "e", "w", "s", "r", "o",
      "o", "m", "/", "p", "r", "e", "s", "s", "-", "r", "e", "l", "e", "a", "s",
      "e", "s">>

\* source_url = f"{url}?PageNum_rs={page}"
senate_drupal_source_url(url, pg) == url \o <<"?">> \o S_PageNum_rsE \o str(pg)

\* h2_elements = doc.select("#newscontent h2"): the places of the h2 nodes.
RECURSIVE h2_from(_, _)
h2_from(doc, k) ==
    IF k > Len(doc) THEN <<>>
    ELSE (IF doc[k].kind = "h2" THEN <<k>> ELSE <<>>) \o h2_from(doc, k + 1)

h2_elements(doc) == h2_from(doc, 1)

\* The date of a raw_date under one format: "if raw_date: try: ... except
\* ValueError: pass".
drupal_date(raw_date, formats) ==
    IF Truthy(raw_date) THEN first_format(raw_date, formats) ELSE None

\* One pass of senate_drupal_newscontent's "for row in h2_elements" for the
\* h2 at k of doc.
senate_drupal_newscontent(doc, k, url, dom) ==
    IF ~doc[k].link THEN Continue
    ELSE AppendOf(url,
                  S_https_ \o dom \o fstr(doc[k].href),
                  Strip(doc[k].text),
                  drupal_date(drupal_raw_date(doc, k), <<FMT_mdy_dot, FMT_BdY>>),
                  dom)

\* The branch of senate_drupal a listing takes.
senate_drupal_branch(url, dom) ==
    IF dom \in {D_tomudall, D_vanhollen, D_warren} THEN "BdY"
    ELSE IF url = URL_republicanleader THEN "republicanleader"
    ELSE "mdy"

\* The value of the local domain after a pass that reaches the branches.
senate_drupal_domain(url, dom) ==
    IF senate_drupal_branch(url, dom) = "republicanleader" THEN D_mcconnell ELSE dom

\* release_url = f"{parsed_url.scheme}://{domain}{link.get('href')}", and in
\* the republicanleader branch
\* release_url.replace('mcconnell.senate.gov', 'www.republicanleader.senate.gov')
senate_drupal_release_url(url, dom, href) ==
    IF senate_drupal_branch(url, dom) = "republicanleader"
    THEN ReplaceStr(urlparse(url).scheme \o <<":", "/", "/">> \o dom \o fstr(href),
                    D_mcconnell, D_republicanleader)
    ELSE urlparse(url).scheme \o <<":", "/", "/">> \o dom \o fstr(href)

senate_drupal_date(url, dom, raw_date) ==
    CASE senate_drupal_branch(url, dom) = "BdY" -> drupal_date(raw_date, <<FMT_BdY>>)
      [] senate_drupal_branch(url, dom) = "republicanleader" ->
           IF Truthy(raw_date)
           THEN first_format(Replace(raw_date, ".", "/"), <<FMT_mdy_slash>>)
           ELSE None
      [] OTHER -> drupal_date(raw_date, <<FMT_mdy_dot>>)

\* One pass of senate_drupal's "for row in h2_elements" for the h2 at k of
\* doc; the record's source is source_url.
senate_drupal(doc, k, url, src, dom) ==
    IF ~doc[k].link THEN Continue
    ELSE AppendOf(src,
                  senate_drupal_release_url(url, dom, doc[k].href),
                  Strip(doc[k].text),
                  senate_drupal_date(url, dom, drupal_raw_date(doc, k)),
                  senate_drupal_domain(url, dom))

DrupalBody(e, doc, k, url, src, dom) ==
    IF e = "senate_drupal" THEN senate_drupal(doc, k, url, src, dom)
    ELSE senate_drupal_newscontent(doc, k, url, dom)

(*------------------------------ its inputs -------------------------------*)

URL_hoeven ==
    <<"h", "t", "t", "p", "s", ":", "/", "/", "w", "w", "w", ".", "h", "o", "e", "v",
      "e", "n", ".", "s", "e", "n", "a", "t", "e", ".", "g", "o", "v", "/", "n",
      "e", "w", "s", "/", "n", "e", "w", "s", "-", "r", "e", "l", "e", "a", "s",
      "e", "s">>
URL_vanhollen ==
    <<"h", "t", "t", "p", "s", ":", "/", "/", "w", "w", "w", ".", "v", "a", "n", "h",
      "o", "l", "l", "e", "n", ".", "s", "e", "n", "a", "t", "e", ".", "g", "o",
      "v", "/", "n", "e", "w", "s", "/", "p", "r", "e", "s", "s", "-", "r", "e",
      "l", "e", "a", "s", "e", "s">>
TEXT_BdY ==
    <<"J", "a", "n", "u", "a", "r", "y", " ", "1", "5", ",", " ", "2", "0", "2", "4">>
TITLE_h2 ==
    <<"\n", " ", "T", "2", " ">>

NODE_h2(href)   == Sibling("h2", TITLE_h2, TRUE, href)
NODE_h2_nolink  == Sibling("h2", TITLE_h2, FALSE, None)
NODE_date(text) == Sibling("tag", text, FALSE, None)
NODE_space      == Sibling("text", <<"\n">>, FALSE, None)

\* The children of #newscontent: titles with and without a link, dates in
\* the forms 01.15.24 and January 15, 2024, a text that is no date, and the
\* white space between two tags.
DrupalNodes ==
    {NODE_h2(HREF_rel), NODE_h2_nolink, NODE_date(TEXT_dotted), NODE_date(TEXT_BdY),
     NODE_date(TEXT_wrong), NODE_space}

MaxSiblings == 3

\* The input families: "siblings" (one listing, every page of at most
\* MaxSiblings children) and "listings" (several listings, each serving a
\* page of two releases).
DrupalWebs == {"siblings", "listings"}

DrupalUrls == {URL_hoeven, URL_republicanleader, URL_vanhollen}

DrupalUrlLists(w) ==
    IF w = "siblings" THEN {<<u>> : u \in DrupalUrls}
    ELSE SeqsUpTo(DrupalUrls, MaxUrls)

PAGE_two_releases ==
    <<NODE_date(TEXT_dotted), NODE_space, NODE_h2(HREF_rel), NODE_space,
      NODE_date(TEXT_dotted), NODE_space, NODE_h2(HREF_rel)>>

DrupalDocs(w) ==
    IF w = "siblings" THEN SeqsUpTo(DrupalNodes, MaxSiblings)
    ELSE {PAGE_two_releases}

DrupalResponses(w) ==
    {Response("", 200, Parsed(d), Parsed(d)) : d \in DrupalDocs(w)}
      \cup {FailedRequest("ConnectionError")}

(*------------------------------ its steps --------------------------------*)

DrupalInit ==
    /\ ex \in DrupalExtractors
    /\ web \in DrupalWebs
    /\ urls \in DrupalUrlLists(web)
    /\ page \in 1..MaxPage
    /\ pc = "loop"
    /\ i = 1
    /\ domain = <<>>
    /\ source_url = <<>>
    /\ rows = <<>>
    /\ j = 1
    /\ results = <<>>
    /\ fetched = <<>>
    /\ response = NoResponse
    /\ legislator_info = None
    /\ scraper_func = None
    /\ caller_urls = None
    /\ observed = <<>>

\* The head of "for url in urls" up to the return of open_html.
DrupalBegin(resp) ==
    /\ domain' = urlparse(urls[i]).netloc
    /\ source_url' = senate_drupal_source_url(urls[i], page)
    /\ fetched' = Append(fetched, [url |-> senate_drupal_source_url(urls[i], page),
                                   ok |-> ~open_html(resp).none])
    /\ response' = resp

\* "if not doc: continue"
DrupalFetchNone ==
    /\ AtDomain
    /\ \E resp \in DrupalResponses(web) :
         /\ open_html(resp).none
         /\ DrupalBegin(resp)
    /\ i' = i + 1
    /\ UNCHANGED <<ex, urls, page, web, pc, rows, j, results, dispatchVars>>

\* open_html returns a document: the h2 elements are selected.
DrupalFetchOk ==
    /\ AtDomain
    /\ \E resp \in DrupalResponses(web) :
         /\ ~open_html(resp).none
         /\ DrupalBegin(resp)
         /\ rows' = h2_elements(open_html(resp).doc)
    /\ j' = 1
    /\ pc' = "rows"
    /\ UNCHANGED <<ex, urls, page, web, i, results, dispatchVars>>

\* The document the h2 elements of the row loop belong to.
DrupalDoc == open_html(response).doc

\* One pass of "for row in h2_elements" that ends in continue.
DrupalRowContinue ==
    /\ pc = "rows"
    /\ j <= Len(rows)
    /\ DrupalBody(ex, DrupalDoc, rows[j], urls[i], source_url, domain).kind = "continue"
    /\ j' = j + 1
    /\ UNCHANGED <<ex, urls, page, web, pc, i, domain, source_url, rows, results, fetched,
                   response, dispatchVars>>

\* One pass that ends in results.append(result); senate_drupal may have
\* rewritten its local domain on the way.
DrupalRowAppend ==
    /\ pc = "rows"
    /\ j <= Len(rows)
    /\ DrupalBody(ex, DrupalDoc, rows[j], urls[i], source_url, domain).kind = "append"
    /\ results' = Append(results,
                         DrupalBody(ex, DrupalDoc, rows[j], urls[i], source_url, domain).result)
    /\ domain' = IF ex = "senate_drupal" THEN senate_drupal_domain(urls[i], domain)
                 ELSE domain
    /\ j' = j + 1
    /\ UNCHANGED <<ex, urls, page, web, pc, i, source_url, rows, fetched, response,
                   dispatchVars>>

DrupalNext ==
    \/ DrupalFetchNone
    \/ DrupalFetchOk
    \/ DrupalRowContinue
    \/ DrupalRowAppend
    \/ EndRows
    \/ Return

DrupalSpec == DrupalInit /\ [][DrupalNext]_vars

(***************************************************************************)
(* Two calls of extractors running at once, each in a thread of its own.   *)
(* Every variable of a call is a local of the function, so each holds one  *)
(* value per call; no step reads a variable of the other call.             *)
(***************************************************************************)

Procs == {1, 2}

ParExtractors == {"table_recordlist_date", "article_block_h2_p_date"}

\* The sources of the two calls: they share no URL.
ParUrlLists(p) == IF p = 1 THEN {<<URL_a>>, <<URL_a, URL_h>>} ELSE {<<URL_q>>}

\* What a listing may serve: one release; two releases, the second with a
\* date that does not parse, around a container without a link; a release
\* whose anchor has no href; or no page.
ParPages(e) ==
    {Page(e, <<MkRow(e, <<HREF_rel>>, <<TEXT_good>>)>>),
     Page(e, <<MkRow(e, <<HREF_abs>>, <<TEXT_good>>), MkRow(e, <<>>, <<TEXT_good>>),
               MkRow(e, <<HREF_rel>>, <<TEXT_wrong>>)>>),
     Page(e, <<MkRow(e, <<None>>, <<TEXT_good>>)>>)}

ParResponses(e) ==
    {Response("", 200, Parsed(d), Parsed(d)) : d \in ParPages(e)}
      \cup {FailedRequest("ConnectionError")}

ParInit ==
    /\ ex \in [Procs -> ParExtractors]
    /\ web = "parallel"
    /\ urls \in {f \in [Procs -> UNION {ParUrlLists(p) : p \in Procs}] :
                    \A p \in Procs : f[p] \in ParUrlLists(p)}
    /\ page \in 1..MaxPage
    /\ pc = [p \in Procs |-> "loop"]
    /\ i = [p \in Procs |-> 1]
    /\ domain = [p \in Procs |-> <<>>]
    /\ source_url = [p \in Procs |-> <<>>]
    /\ rows = [p \in Procs |-> <<>>]
    /\ j = [p \in Procs |-> 1]
    /\ results = [p \in Procs |-> <<>>]
    /\ fetched = [p \in Procs |-> <<>>]
    /\ response = [p \in Procs |-> <<>>]
    /\ legislator_info = None
    /\ scraper_func = None
    /\ caller_urls = None
    /\ observed = <<>>

\* The head of "for url in urls" of call p up to the return of open_html;
\* response keeps what each request of the call met, in order.
ParBeginUrl(p, resp) ==
    /\ domain' = [domain EXCEPT ![p] = urlparse(urls[p][i[p]]).netloc]
    /\ source_url' = [source_url EXCEPT ![p] = SourceUrl(ex[p], urls[p][i[p]], page)]
    /\ fetched' = [fetched EXCEPT ![p] =
                     Append(@, [url |-> SourceUrl(ex[p], urls[p][i[p]], page),
                                ok |-> ~open_html(resp).none])]
    /\ response' = [response EXCEPT ![p] = Append(@, resp)]

ParAtUrl(p) == pc[p] = "loop" /\ i[p] <= Len(urls[p])

ParFetchOk(p) ==
    /\ ParAtUrl(p)
    /\ \E resp \in ParResponses(ex[p]) :
         /\ ~open_html(resp).none
         /\ ParBeginUrl(p, resp)
         /\ rows' = [rows EXCEPT ![p] = Rows(ex[p], open_html(resp).doc)]
    /\ j' = [j EXCEPT ![p] = 1]
    /\ pc' = [pc EXCEPT ![p] = "rows"]
    /\ UNCHANGED <<ex, urls, page, web, i, results, dispatchVars>>

ParFetchNone(p) ==
    /\ ParAtUrl(p)
    /\ \E resp \in ParResponses(ex[p]) :
         /\ open_html(resp).none
         /\ ParBeginUrl(p, resp)
    /\ i' = [i EXCEPT ![p] = @ + 1]
    /\ UNCHANGED <<ex, urls, page, web, pc, rows, j, results, dispatchVars>>

\* What the pass of call p over its current row comes to.
ParRowBody(p) == RowBody(ex[p], rows[p][j[p]], urls[p][i[p]], domain[p])

ParAtRow(p) == pc[p] = "rows" /\ j[p] <= Len(rows[p])

ParRowContinue(p) ==
    /\ ParAtRow(p)
    /\ ParRowBody(p).kind = "continue"
    /\ j' = [j EXCEPT ![p] = @ + 1]
    /\ UNCHANGED <<ex, urls, page, web, pc, i, domain, source_url, rows, results, fetched,
                   response, dispatchVars>>

\* An append to a list that the calls would share.
ParRowAppend_shared(p) ==
    /\ ParAtRow(p)
    /\ ParRowBody(p).kind = "append"
    /\ results' = [q \in Procs |-> Append(results[q], ParRowBody(p).result)]
    /\ j' = [j EXCEPT ![p] = @ + 1]
    /\ UNCHANGED <<ex, urls, page, web, pc, i, domain, source_url, rows, fetched,
                   response, dispatchVars>>

\* results.append(result) on the list the call created at its start.
ParRowAppend(p) ==
    /\ ParAtRow(p)
    /\ ParRowBody(p).kind = "append"
    /\ results' = [results EXCEPT ![p] = Append(@, ParRowBody(p).result)]
    /\ j' = [j EXCEPT ![p] = @ + 1]
    /\ UNCHANGED <<ex, urls, page, web, pc, i, domain, source_url, rows, fetched,
                   response, dispatchVars>>

ParRowRaise(p) ==
    /\ ParAtRow(p)
    /\ ParRowBody(p).kind = "raise"
    /\ pc' = [pc EXCEPT ![p] = "raised"]
    /\ UNCHANGED <<ex, urls, page, web, i, domain, source_url, rows, j, results, fetched,
                   response, dispatchVars>>

ParEndRows(p) ==
    /\ pc[p] = "rows"
    /\ j[p] > Len(rows[p])
    /\ i' = [i EXCEPT ![p] = @ + 1]
    /\ pc' = [pc EXCEPT ![p] = "loop"]
    /\ UNCHANGED <<ex, urls, page, web, domain, source_url, rows, j, results, fetched,
                   response, dispatchVars>>

ParReturn(p) ==
    /\ pc[p] = "loop"
    /\ i[p] > Len(urls[p])
    /\ pc' = [pc EXCEPT ![p] = "done"]
    /\ UNCHANGED <<ex, urls, page, web, i, domain, source_url, rows, j, results, fetched,
                   response, dispatchVars>>

\* The threads are scheduled in any order.
ParNext ==
    \E p \in Procs :
        \/ ParFetchOk(p)
        \/ ParFetchNone(p)
        \/ ParRowContinue(p)
        \/ ParRowAppend(p)
        \/ ParRowRaise(p)
        \/ ParEndRows(p)
        \/ ParReturn(p)

ParSpec == ParInit /\ [][ParNext]_vars

(***************************************************************************)
(* Calls made one after another by one caller: what a call leaves behind   *)
(* for the next.  The caller holds a list and passes it as urls or calls   *)
(* without one; the local urls of a call that was passed the list is that  *)
(* very list.                                                              *)
(***************************************************************************)

\* The list media_body binds to urls when it is called without one:
\* "if urls is None: urls = [...]", a list built anew by every call.
media_body_default_urls ==
    <<<<"h", "t", "t", "p", "s", ":", "/", "/", "i", "s", "s", "a", ".", "h", "o", "u", "s", "e", ".", "g", "o", "v", "/", "m", "e", "d", "i", "a", "/", "p", "r", "e", "s", "s", "-", "r", "e", "l", "e", "a", "s", "e", "s">>,
      <<"h", "t", "t", "p", "s", ":", "/", "/", "t", "e", "n", "n", "e", "y", ".", "h", "o", "u", "s", "e", ".", "g", "o", "v", "/", "m", "e", "d", "i", "a", "/", "p", "r", "e", "s", "s", "-", "r", "e", "l", "e", "a", "s", "e", "s">>,
      <<"h", "t", "t", "p", "s", ":", "/", "/", "a", "m", "o", "d", "e", "i", ".", "h", "o", "u", "s", "e", ".", "g", "o", "v", "/", "n", "e", "w", "s", "-", "r", "e", "l", "e", "a", "s", "e", "s">>,
      <<"h", "t", "t", "p", "s", ":", "/", "/", "p", "a", "l", "m", "e", "r", ".", "h", "o", "u", "s", "e", ".", "g", "o", "v", "/", "m", "e", "d", "i", "a", "-", "c", "e", "n", "t", "e", "r", "/", "p", "r", "e", "s", "s", "-", "r", "e", "l", "e", "a", "s", "e", "s">>,
      <<"h", "t", "t", "p", "s", ":", "/", "/", "n", "e", "w", "h", "o", "u", "s", "e", ".", "h", "o", "u", "s", "e", ".", "g", "o", "v", "/", "m", "e", "d", "i", "a", "-", "c", "e", "n", "t", "e", "r", "/", "p", "r", "e", "s", "s", "-", "r", "e", "l", "e", "a", "s", "e", "s">>,
      <<"h", "t", "t", "p", "s", ":", "/", "/", "d", "o", "g", "g", "e", "t", "t", ".", "h", "o", "u", "s", "e", ".", "g", "o", "v", "/", "m", "e", "d", "i", "a", "/", "p", "r", "e", "s", "s", "-", "r", "e", "l", "e", "a", "s", "e", "s">>,
      <<"h", "t", "t", "p", "s", ":", "/", "/", "o", "c", "a", "s", "i", "o", "-", "c", "o", "r", "t", "e", "z", ".", "h", "o", "u", "s", "e", ".", "g", "o", "v", "/", "m", "e", "d", "i", "a", "/", "p", "r", "e", "s", "s", "-", "r", "e", "l", "e", "a", "s", "e", "s">>,
      <<"h", "t", "t", "p", "s", ":", "/", "/", "h", "u", "d", "s", "o", "n", ".", "h", "o", "u", "s", "e", ".", "g", "o", "v", "/", "m", "e", "d", "i", "a", "/", "p", "r", "e", "s", "s", "-", "r", "e", "l", "e", "a", "s", "e", "s">>,
      <<"h", "t", "t", "p", "s", ":", "/", "/", "d", "a", "v", "i", "s", ".", "h", "o", "u", "s", "e", ".", "g", "o", "v", "/", "m", "e", "d", "i", "a">>,
      <<"h", "t", "t", "p", "s", ":", "/", "/", "e", "s", "p", "a", "i", "l", "l", "a", "t", ".", "h", "o", "u", "s", "e", ".", "g", "o", "v", "/", "m", "e", "d", "i", "a", "/", "p", "r", "e", "s", "s", "-", "r", "e", "l", "e", "a", "s", "e", "s">>,
      <<"h", "t", "t", "p", "s", ":", "/", "/", "a", "l", "g", "r", "e", "e", "n", ".", "h", "o", "u", "s", "e", ".", "g", "o", "v", "/", "m", "e", "d", "i", "a", "/", "p", "r", "e", "s", "s", "-", "r", "e", "l", "e", "a", "s", "e", "s">>,
      <<"h", "t", "t", "p", "s", ":", "/", "/", "m", "a", "r", "i", "o", "d", "i", "a", "z", "b", "a", "l", "a", "r", "t", ".", "h", "o", "u", "s", "e", ".", "g", "o", "v", "/", "m", "e", "d", "i", "a", "-", "c", "e", "n", "t", "e", "r", "/", "p", "r", "e", "s", "s", "-", "r", "e", "l", "e", "a", "s", "e", "s">>,
      <<"h", "t", "t", "p", "s", ":", "/", "/", "b", "i", "g", "g", "s", ".", "h", "o", "u", "s", "e", ".", "g", "o", "v", "/", "m", "e", "d", "i", "a", "/", "p", "r", "e", "s", "s", "-", "r", "e", "l", "e", "a", "s", "e", "s">>,
      <<"h", "t", "t", "p", "s", ":", "/", "/", "j", "o", "h", "n", "j", "o", "y", "c", "e", ".", "h", "o", "u", "s", "e", ".", "g", "o", "v", "/", "m", "e", "d", "i", "a", "/", "p", "r", "e", "s", "s", "-", "r", "e", "l", "e", "a", "s", "e", "s">>,
      <<"h", "t", "t", "p", "s", ":", "/", "/", "l", "a", "r", "s", "o", "n", ".", "h", "o", "u", "s", "e", ".", "g", "o", "v", "/", "m", "e", "d", "i", "a", "-", "c", "e", "n", "t", "e", "r", "/", "p", "r", "e", "s", "s", "-", "r", "e", "l", "e", "a", "s", "e", "s">>,
      <<"h", "t", "t", "p", "s", ":", "/", "/", "k", "a", "p", "t", "u", "r", ".", "h", "o", "u", "s", "e", ".", "g", "o", "v", "/", "m", "e", "d", "i", "a", "-", "c", "e", "n", "t", "e", "r", "/", "p", "r", "e", "s", "s", "-", "r", "e", "l", "e", "a", "s", "e", "s">>,
      <<"h", "t", "t", "p", "s", ":", "/", "/", "b", "e", "n", "n", "i", "e", "t", "h", "o", "m", "p", "s", "o", "n", ".", "h", "o", "u", "s", "e", ".", "g", "o", "v", "/", "m", "e", "d", "i", "a", "/", "p", "r", "e", "s", "s", "-", "r", "e", "l", "e", "a", "s", "e", "s">>,
      <<"h", "t", "t", "p", "s", ":", "/", "/", "w", "a", "l", "b", "e", "r", "g", ".", "h", "o", "u", "s", "e", ".", "g", "o", "v", "/", "m", "e", "d", "i", "a", "/", "p", "r", "e", "s", "s", "-", "r", "e", "l", "e", "a", "s", "e", "s">>,
      <<"h", "t", "t", "p", "s", ":", "/", "/", "b", "u", "r", "c", "h", "e", "t", "t", ".", "h", "o", "u", "s", "e", ".", "g", "o", "v", "/", "m", "e", "d", "i", "a", "/", "p", "r", "e", "s", "s", "-", "r", "e", "l", "e", "a", "s", "e", "s">>,
      <<"h", "t", "t", "p", "s", ":", "/", "/", "c", "l", "i", "n", "e", ".", "h", "o", "u", "s", "e", ".", "g", "o", "v", "/", "m", "e", "d", "i", "a", "/", "p", "r", "e", "s", "s", "-", "r", "e", "l", "e", "a", "s", "e", "s">>,
      <<"h", "t", "t", "p", "s", ":", "/", "/", "g", "o", "l", "d", "e", "n", ".", "h", "o", "u", "s", "e", ".", "g", "o", "v", "/", "m", "e", "d", "i", "a", "/", "p", "r", "e", "s", "s", "-", "r", "e", "l", "e", "a", "s", "e", "s">>,
      <<"h", "t", "t", "p", "s", ":", "/", "/", "h", "a", "r", "d", "e", "r", ".", "h", "o", "u", "s", "e", ".", "g", "o", "v", "/", "m", "e", "d", "i", "a", "/", "p", "r", "e", "s", "s", "-", "r", "e", "l", "e", "a", "s", "e", "s">>,
      <<"h", "t", "t", "p", "s", ":", "/", "/", "d", "u", "s", "t", "y", "j", "o", "h", "n", "s", "o", "n", ".", "h", "o", "u", "s", "e", ".", "g", "o", "v", "/", "m", "e", "d", "i", "a", "/", "p", "r", "e", "s", "s", "-", "r", "e", "l", "e", "a", "s", "e", "s">>,
      <<"h", "t", "t", "p", "s", ":", "/", "/", "m", "e", "u", "s", "e", "r", ".", "h", "o", "u", "s", "e", ".", "g", "o", "v", "/", "m", "e", "d", "i", "a", "/", "p", "r", "e", "s", "s", "-", "r", "e", "l", "e", "a", "s", "e", "s">>,
      <<"h", "t", "t", "p", "s", ":", "/", "/", "m", "i", "l", "l", "e", "r", ".", "h", "o", "u", "s", "e", ".", "g", "o", "v", "/", "m", "e", "d", "i", "a", "/", "p", "r", "e", "s", "s", "-", "r", "e", "l", "e", "a", "s", "e", "s">>,
      <<"h", "t", "t", "p", "s", ":", "/", "/", "j", "o", "h", "n", "r", "o", "s", "e", ".", "h", "o", "u", "s", "e", ".", "g", "o", "v", "/", "m", "e", "d", "i", "a", "/", "p", "r", "e", "s", "s", "-", "r", "e", "l", "e", "a", "s", "e", "s">>,
      <<"h", "t", "t", "p", "s", ":", "/", "/", "r", "o", "y", ".", "h", "o", "u", "s", "e", ".", "g", "o", "v", "/", "m", "e", "d", "i", "a", "/", "p", "r", "e", "s", "s", "-", "r", "e", "l", "e", "a", "s", "e", "s">>,
      <<"h", "t", "t", "p", "s", ":", "/", "/", "s", "h", "e", "r", "r", "i", "l", "l", ".", "h", "o", "u", "s", "e", ".", "g", "o", "v", "/", "m", "e", "d", "i", "a", "/", "p", "r", "e", "s", "s", "-", "r", "e", "l", "e", "a", "s", "e", "s">>,
      <<"h", "t", "t", "p", "s", ":", "/", "/", "s", "t", "e", "i", "l", ".", "h", "o", "u", "s", "e", ".", "g", "o", "v", "/", "m", "e", "d", "i", "a", "/", "p", "r", "e", "s", "s", "-", "r", "e", "l", "e", "a", "s", "e", "s">>,
      <<"h", "t", "t", "p", "s", ":", "/", "/", "s", "c", "h", "r", "i", "e", "r", ".", "h", "o", "u", "s", "e", ".", "g", "o", "v", "/", "m", "e", "d", "i", "a", "/", "p", "r", "e", "s", "s", "-", "r", "e", "l", "e", "a", "s", "e", "s">>,
      <<"h", "t", "t", "p", "s", ":", "/", "/", "c", "h", "e", "r", "f", "i", "l", "u", "s", "-", "m", "c", "c", "o", "r", "m", "i", "c", "k", ".", "h", "o", "u", "s", "e", ".", "g", "o", "v", "/", "m", "e", "d", "i", "a", "/", "p", "r", "e", "s", "s", "-", "r", "e", "l", "e", "a", "s", "e", "s">>,
      <<"h", "t", "t", "p", "s", ":", "/", "/", "s", "h", "o", "n", "t", "e", "l", "b", "r", "o", "w", "n", ".", "h", "o", "u", "s", "e", ".", "g", "o", "v", "/", "m", "e", "d", "i", "a", "/", "p", "r", "e", "s", "s", "-", "r", "e", "l", "e", "a", "s", "e", "s">>,
      <<"h", "t", "t", "p", "s", ":", "/", "/", "s", "t", "a", "n", "s", "b", "u", "r", "y", ".", "h", "o", "u", "s", "e", ".", "g", "o", "v", "/", "m", "e", "d", "i", "a", "/", "p", "r", "e", "s", "s", "-", "r", "e", "l", "e", "a", "s", "e", "s">>,
      <<"h", "t", "t", "p", "s", ":", "/", "/", "t", "r", "o", "y", "c", "a", "r", "t", "e", "r", ".", "h", "o", "u", "s", "e", ".", "g", "o", "v", "/", "m", "e", "d", "i", "a", "/", "p", "r", "e", "s", "s", "-", "r", "e", "l", "e", "a", "s", "e", "s">>,
      <<"h", "t", "t", "p", "s", ":", "/", "/", "l", "e", "t", "l", "o", "w", ".", "h", "o", "u", "s", "e", ".", "g", "o", "v", "/", "m", "e", "d", "i", "a", "/", "p", "r", "e", "s", "s", "-", "r", "e", "l", "e", "a", "s", "e", "s">>,
      <<"h", "t", "t", "p", "s", ":", "/", "/", "m", "a", "t", "s", "u", "i", ".", "h", "o", "u", "s", "e", ".", "g", "o", "v", "/", "m", "e", "d", "i", "a">>,
      <<"h", "t", "t", "p", "s", ":", "/", "/", "h", "a", "r", "r", "i", "s", ".", "h", "o", "u", "s", "e", ".", "g", "o", "v", "/", "m", "e", "d", "i", "a", "/", "p", "r", "e", "s", "s", "-", "r", "e", "l", "e", "a", "s", "e", "s">>,
      <<"h", "t", "t", "p", "s", ":", "/", "/", "w", "a", "g", "n", "e", "r", ".", "h", "o", "u", "s", "e", ".", "g", "o", "v", "/", "m", "e", "d", "i", "a", "-", "c", "e", "n", "t", "e", "r", "/", "p", "r", "e", "s", "s", "-", "r", "e", "l", "e", "a", "s", "e", "s">>,
      <<"h", "t", "t", "p", "s", ":", "/", "/", "p", "a", "p", "p", "a", "s", ".", "h", "o", "u", "s", "e", ".", "g", "o", "v", "/", "m", "e", "d", "i", "a", "/", "p", "r", "e", "s", "s", "-", "r", "e", "l", "e", "a", "s", "e", "s">>,
      <<"h", "t", "t", "p", "s", ":", "/", "/", "c", "r", "o", "w", ".", "h", "o", "u", "s", "e", ".", "g", "o", "v", "/", "m", "e", "d", "i", "a", "/", "p", "r", "e", "s", "s", "-", "r", "e", "l", "e", "a", "s", "e", "s">>,
      <<"h", "t", "t", "p", "s", ":", "/", "/", "c", "h", "u", "y", "g", "a", "r", "c", "i", "a", ".", "h", "o", "u", "s", "e", ".", "g", "o", "v", "/", "m", "e", "d", "i", "a", "/", "p", "r", "e", "s", "s", "-", "r", "e", "l", "e", "a", "s", "e", "s">>,
      <<"h", "t", "t", "p", "s", ":", "/", "/", "o", "m", "a", "r", ".", "h", "o", "u", "s", "e", ".", "g", "o", "v", "/", "m", "e", "d", "i", "a", "/", "p", "r", "e", "s", "s", "-", "r", "e", "l", "e", "a", "s", "e", "s">>,
      <<"h", "t", "t", "p", "s", ":", "/", "/", "u", "n", "d", "e", "r", "w", "o", "o", "d", ".", "h", "o", "u", "s", "e", ".", "g", "o", "v", "/", "m", "e", "d", "i", "a", "/", "p", "r", "e", "s", "s", "-", "r", "e", "l", "e", "a", "s", "e", "s">>,
      <<"h", "t", "t", "p", "s", ":", "/", "/", "c", "a", "s", "t", "e", "n", ".", "h", "o", "u", "s", "e", ".", "g", "o", "v", "/", "m", "e", "d", "i", "a", "/", "p", "r", "e", "s", "s", "-", "r", "e", "l", "e", "a", "s", "e", "s">>,
      <<"h", "t", "t", "p", "s", ":", "/", "/", "f", "l", "e", "i", "s", "c", "h", "m", "a", "n", "n", ".", "h", "o", "u", "s", "e", ".", "g", "o", "v", "/", "m", "e", "d", "i", "a", "/", "p", "r", "e", "s", "s", "-", "r", "e", "l", "e", "a", "s", "e", "s">>,
      <<"h", "t", "t", "p", "s", ":", "/", "/", "s", "t", "e", "v", "e", "n", "s", ".", "h", "o", "u", "s", "e", ".", "g", "o", "v", "/", "m", "e", "d", "i", "a", "/", "p", "r", "e", "s", "s", "-", "r", "e", "l", "e", "a", "s", "e", "s">>,
      <<"h", "t", "t", "p", "s", ":", "/", "/", "g", "u", "e", "s", "t", ".", "h", "o", "u", "s", "e", ".", "g", "o", "v", "/", "m", "e", "d", "i", "a", "/", "p", "r", "e", "s", "s", "-", "r", "e", "l", "e", "a", "s", "e", "s">>,
      <<"h", "t", "t", "p", "s", ":", "/", "/", "m", "o", "r", "e", "l", "l", "e", ".", "h", "o", "u", "s", "e", ".", "g", "o", "v", "/", "m", "e", "d", "i", "a", "/", "p", "r", "e", "s", "s", "-", "r", "e", "l", "e", "a", "s", "e", "s">>,
      <<"h", "t", "t", "p", "s", ":", "/", "/", "b", "e", "a", "t", "t", "y", ".", "h", "o", "u", "s", "e", ".", "g", "o", "v", "/", "m", "e", "d", "i", "a", "-", "c", "e", "n", "t", "e", "r", "/", "p", "r", "e", "s", "s", "-", "r", "e", "l", "e", "a", "s", "e", "s">>,
      <<"h", "t", "t", "p", "s", ":", "/", "/", "r", "o", "b", "i", "n", "k", "e", "l", "l", "y", ".", "h", "o", "u", "s", "e", ".", "g", "o", "v", "/", "m", "e", "d", "i", "a", "-", "c", "e", "n", "t", "e", "r", "/", "p", "r", "e", "s", "s", "-", "r", "e", "l", "e", "a", "s", "e", "s">>,
      <<"h", "t", "t", "p", "s", ":", "/", "/", "m", "o", "o", "l", "e", "n", "a", "a", "r", ".", "h", "o", "u", "s", "e", ".", "g", "o", "v", "/", "m", "e", "d", "i", "a", "-", "c", "e", "n", "t", "e", "r", "/", "p", "r", "e", "s", "s", "-", "r", "e", "l", "e", "a", "s", "e", "s">>,
      <<"h", "t", "t", "p", "s", ":", "/", "/", "a", "d", "a", "m", "s", ".", "h", "o", "u", "s", "e", ".", "g", "o", "v", "/", "m", "e", "d", "i", "a", "-", "c", "e", "n", "t", "e", "r", "/", "p", "r", "e", "s", "s", "-", "r", "e", "l", "e", "a", "s", "e", "s">>,
      <<"h", "t", "t", "p", "s", ":", "/", "/", "m", "f", "u", "m", "e", ".", "h", "o", "u", "s", "e", ".", "g", "o", "v", "/", "m", "e", "d", "i", "a", "/", "p", "r", "e", "s", "s", "-", "r", "e", "l", "e", "a", "s", "e", "s">>,
      <<"h", "t", "t", "p", "s", ":", "/", "/", "t", "i", "f", "f", "a", "n", "y", ".", "h", "o", "u", "s", "e", ".", "g", "o", "v", "/", "m", "e", "d", "i", "a", "/", "p", "r", "e", "s", "s", "-", "r", "e", "l", "e", "a", "s", "e", "s">>,
      <<"h", "t", "t", "p", "s", ":", "/", "/", "b", "a", "r", "r", "y", "m", "o", "o", "r", "e", ".", "h", "o", "u", "s", "e", ".", "g", "o", "v", "/", "m", "e", "d", "i", "a", "/", "p", "r", "e", "s", "s", "-", "r", "e", "l", "e", "a", "s", "e", "s">>,
      <<"h", "t", "t", "p", "s", ":", "/", "/", "o", "b", "e", "r", "n", "o", "l", "t", "e", ".", "h", "o", "u", "s", "e", ".", "g", "o", "v", "/", "m", "e", "d", "i", "a", "/", "p", "r", "e", "s", "s", "-", "r", "e", "l", "e", "a", "s", "e", "s">>,
      <<"h", "t", "t", "p", "s", ":", "/", "/", "b", "o", "e", "b", "e", "r", "t", ".", "h", "o", "u", "s", "e", ".", "g", "o", "v", "/", "m", "e", "d", "i", "a", "/", "p", "r", "e", "s", "s", "-", "r", "e", "l", "e", "a", "s", "e", "s">>,
      <<"h", "t", "t", "p", "s", ":", "/", "/", "c", "a", "m", "m", "a", "c", "k", ".", "h", "o", "u", "s", "e", ".", "g", "o", "v", "/", "m", "e", "d", "i", "a", "/", "p", "r", "e", "s", "s", "-", "r", "e", "l", "e", "a", "s", "e", "s">>,
      <<"h", "t", "t", "p", "s", ":", "/", "/", "s", "a", "l", "a", "z", "a", "r", ".", "h", "o", "u", "s", "e", ".", "g", "o", "v", "/", "m", "e", "d", "i", "a", "/", "p", "r", "e", "s", "s", "-", "r", "e", "l", "e", "a", "s", "e", "s">>,
      <<"h", "t", "t", "p", "s", ":", "/", "/", "h", "i", "n", "s", "o", "n", ".", "h", "o", "u", "s", "e", ".", "g", "o", "v", "/", "m", "e", "d", "i", "a", "/", "p", "r", "e", "s", "s", "-", "r", "e", "l", "e", "a", "s", "e", "s">>,
      <<"h", "t", "t", "p", "s", ":", "/", "/", "m", "i", "l", "l", "e", "r", "m", "e", "e", "k", "s", ".", "h", "o", "u", "s", "e", ".", "g", "o", "v", "/", "m", "e", "d", "i", "a", "/", "p", "r", "e", "s", "s", "-", "r", "e", "l", "e", "a", "s", "e", "s">>,
      <<"h", "t", "t", "p", "s", ":", "/", "/", "f", "e", "e", "n", "s", "t", "r", "a", ".", "h", "o", "u", "s", "e", ".", "g", "o", "v", "/", "m", "e", "d", "i", "a", "/", "p", "r", "e", "s", "s", "-", "r", "e", "l", "e", "a", "s", "e", "s">>,
      <<"h", "t", "t", "p", "s", ":", "/", "/", "m", "a", "r", "y", "m", "i", "l", "l", "e", "r", ".", "h", "o", "u", "s", "e", ".", "g", "o", "v", "/", "m", "e", "d", "i", "a", "/", "p", "r", "e", "s", "s", "-", "r", "e", "l", "e", "a", "s", "e", "s">>,
      <<"h", "t", "t", "p", "s", ":", "/", "/", "m", "r", "v", "a", "n", ".", "h", "o", "u", "s", "e", ".", "g", "o", "v", "/", "m", "e", "d", "i", "a", "/", "p", "r", "e", "s", "s", "-", "r", "e", "l", "e", "a", "s", "e", "s">>,
      <<"h", "t", "t", "p", "s", ":", "/", "/", "s", "p", "a", "r", "t", "z", ".", "h", "o", "u", "s", "e", ".", "g", "o", "v", "/", "m", "e", "d", "i", "a", "/", "p", "r", "e", "s", "s", "-", "r", "e", "l", "e", "a", "s", "e", "s">>,
      <<"h", "t", "t", "p", "s", ":", "/", "/", "m", "a", "n", "n", ".", "h", "o", "u", "s", "e", ".", "g", "o", "v", "/", "m", "e", "d", "i", "a", "/", "p", "r", "e", "s", "s", "-", "r", "e", "l", "e", "a", "s", "e", "s">>,
      <<"h", "t", "t", "p", "s", ":", "/", "/", "g", "a", "r", "b", "a", "r", "i", "n", "o", ".", "h", "o", "u", "s", "e", ".", "g", "o", "v", "/", "m", "e", "d", "i", "a", "/", "p", "r", "e", "s", "s", "-", "r", "e", "l", "e", "a", "s", "e", "s">>,
      <<"h", "t", "t", "p", "s", ":", "/", "/", "m", "a", "l", "l", "i", "o", "t", "a", "k", "i", "s", ".", "h", "o", "u", "s", "e", ".", "g", "o", "v", "/", "m", "e", "d", "i", "a", "/", "p", "r", "e", "s", "s", "-", "r", "e", "l", "e", "a", "s", "e", "s">>,
      <<"h", "t", "t", "p", "s", ":", "/", "/", "b", "i", "c", "e", ".", "h", "o", "u", "s", "e", ".", "g", "o", "v", "/", "m", "e", "d", "i", "a", "/", "p", "r", "e", "s", "s", "-", "r", "e", "l", "e", "a", "s", "e", "s">>,
      <<"h", "t", "t", "p", "s", ":", "/", "/", "b", "e", "n", "t", "z", ".", "h", "o", "u", "s", "e", ".", "g", "o", "v", "/", "m", "e", "d", "i", "a", "/", "p", "r", "e", "s", "s", "-", "r", "e", "l", "e", "a", "s", "e", "s">>,
      <<"h", "t", "t", "p", "s", ":", "/", "/", "m", "a", "c", "e", ".", "h", "o", "u", "s", "e", ".", "g", "o", "v", "/", "m", "e", "d", "i", "a", "/", "p", "r", "e", "s", "s", "-", "r", "e", "l", "e", "a", "s", "e", "s">>,
      <<"h", "t", "t", "p", "s", ":", "/", "/", "h", "a", "r", "s", "h", "b", "a", "r", "g", "e", "r", ".", "h", "o", "u", "s", "e", ".", "g", "o", "v", "/", "m", "e", "d", "i", "a", "/", "p", "r", "e", "s", "s", "-", "r", "e", "l", "e", "a", "s", "e", "s">>,
      <<"h", "t", "t", "p", "s", ":", "/", "/", "b", "l", "a", "k", "e", "m", "o", "o", "r", "e", ".", "h", "o", "u", "s", "e", ".", "g", "o", "v", "/", "m", "e", "d", "i", "a", "/", "p", "r", "e", "s", "s", "-", "r", "e", "l", "e", "a", "s", "e", "s">>,
      <<"h", "t", "t", "p", "s", ":", "/", "/", "f", "i", "t", "z", "g", "e", "r", "a", "l", "d", ".", "h", "o", "u", "s", "e", ".", "g", "o", "v", "/", "m", "e", "d", "i", "a", "/", "p", "r", "e", "s", "s", "-", "r", "e", "l", "e", "a", "s", "e", "s">>,
      <<"h", "t", "t", "p", "s", ":", "/", "/", "f", "l", "o", "o", "d", ".", "h", "o", "u", "s", "e", ".", "g", "o", "v", "/", "m", "e", "d", "i", "a", "/", "p", "r", "e", "s", "s", "-", "r", "e", "l", "e", "a", "s", "e", "s">>,
      <<"h", "t", "t", "p", "s", ":", "/", "/", "p", "a", "t", "r", "y", "a", "n", ".", "h", "o", "u", "s", "e", ".", "g", "o", "v", "/", "m", "e", "d", "i", "a", "/", "p", "r", "e", "s", "s", "-", "r", "e", "l", "e", "a", "s", "e", "s">>,
      <<"h", "t", "t", "p", "s", ":", "/", "/", "k", "a", "m", "l", "a", "g", "e", "r", "-", "d", "o", "v", "e", ".", "h", "o", "u", "s", "e", ".", "g", "o", "v", "/", "m", "e", "d", "i", "a", "/", "p", "r", "e", "s", "s", "-", "r", "e", "l", "e", "a", "s", "e", "s">>,
      <<"h", "t", "t", "p", "s", ":", "/", "/", "r", "o", "b", "e", "r", "t", "g", "a", "r", "c", "i", "a", ".", "h", "o", "u", "s", "e", ".", "g", "o", "v", "/", "m", "e", "d", "i", "a", "/", "p", "r", "e", "s", "s", "-", "r", "e", "l", "e", "a", "s", "e", "s">>,
      <<"h", "t", "t", "p", "s", ":", "/", "/", "b", "e", "a", "n", ".", "h", "o", "u", "s", "e", ".", "g", "o", "v", "/", "m", "e", "d", "i", "a", "/", "p", "r", "e", "s", "s", "-", "r", "e", "l", "e", "a", "s", "e", "s">>,
      <<"h", "t", "t", "p", "s", ":", "/", "/", "m", "c", "c", "o", "r", "m", "i", "c", "k", ".", "h", "o", "u", "s", "e", ".", "g", "o", "v", "/", "m", "e", "d", "i", "a", "/", "p", "r", "e", "s", "s", "-", "r", "e", "l", "e", "a", "s", "e", "s">>,
      <<"h", "t", "t", "p", "s", ":", "/", "/", "c", "o", "l", "l", "i", "n", "s", ".", "h", "o", "u", "s", "e", ".", "g", "o", "v", "/", "m", "e", "d", "i", "a", "/", "p", "r", "e", "s", "s", "-", "r", "e", "l", "e", "a", "s", "e", "s">>,
      <<"h", "t", "t", "p", "s", ":", "/", "/", "e", "d", "w", "a", "r", "d", "s", ".", "h", "o", "u", "s", "e", ".", "g", "o", "v", "/", "m", "e", "d", "i", "a", "/", "p", "r", "e", "s", "s", "-", "r", "e", "l", "e", "a", "s", "e", "s">>,
      <<"h", "t", "t", "p", "s", ":", "/", "/", "k", "e", "a", "n", ".", "h", "o", "u", "s", "e", ".", "g", "o", "v", "/", "m", "e", "d", "i", "a", "/", "p", "r", "e", "s", "s", "-", "r", "e", "l", "e", "a", "s", "e", "s">>,
      <<"h", "t", "t", "p", "s", ":", "/", "/", "g", "o", "l", "d", "m", "a", "n", ".", "h", "o", "u", "s", "e", ".", "g", "o", "v", "/", "m", "e", "d", "i", "a", "/", "p", "r", "e", "s", "s", "-", "r", "e", "l", "e", "a", "s", "e", "s">>,
      <<"h", "t", "t", "p", "s", ":", "/", "/", "l", "a", "n", "g", "w", "o", "r", "t", "h", "y", ".", "h", "o", "u", "s", "e", ".", "g", "o", "v", "/", "m", "e", "d", "i", "a", "/", "p", "r", "e", "s", "s", "-", "r", "e", "l", "e", "a", "s", "e", "s">>,
      <<"h", "t", "t", "p", "s", ":", "/", "/", "m", "a", "g", "a", "z", "i", "n", "e", "r", ".", "h", "o", "u", "s", "e", ".", "g", "o", "v", "/", "m", "e", "d", "i", "a", "/", "p", "r", "e", "s", "s", "-", "r", "e", "l", "e", "a", "s", "e", "s">>,
      <<"h", "t", "t", "p", "s", ":", "/", "/", "v", "a", "n", "o", "r", "d", "e", "n", ".", "h", "o", "u", "s", "e", ".", "g", "o", "v", "/", "m", "e", "d", "i", "a", "/", "p", "r", "e", "s", "s", "-", "r", "e", "l", "e", "a", "s", "e", "s">>,
      <<"h", "t", "t", "p", "s", ":", "/", "/", "h", "u", "n", "t", ".", "h", "o", "u", "s", "e", ".", "g", "o", "v", "/", "m", "e", "d", "i", "a", "/", "p", "r", "e", "s", "s", "-", "r", "e", "l", "e", "a", "s", "e", "s">>,
      <<"h", "t", "t", "p", "s", ":", "/", "/", "c", "a", "s", "a", "r", ".", "h", "o", "u", "s", "e", ".", "g", "o", "v", "/", "m", "e", "d", "i", "a", "/", "p", "r", "e", "s", "s", "-", "r", "e", "l", "e", "a", "s", "e", "s">>,
      <<"h", "t", "t", "p", "s", ":", "/", "/", "c", "r", "o", "c", "k", "e", "t", "t", ".", "h", "o", "u", "s", "e", ".", "g", "o", "v", "/", "m", "e", "d", "i", "a", "/", "p", "r", "e", "s", "s", "-", "r", "e", "l", "e", "a", "s", "e", "s">>,
      <<"h", "t", "t", "p", "s", ":", "/", "/", "l", "u", "t", "t", "r", "e", "l", "l", ".", "h", "o", "u", "s", "e", ".", "g", "o", "v", "/", "m", "e", "d", "i", "a", "/", "p", "r", "e", "s", "s", "-", "r", "e", "l", "e", "a", "s", "e", "s">>,
      <<"h", "t", "t", "p", "s", ":", "/", "/", "d", "e", "l", "u", "z", "i", "o", ".", "h", "o", "u", "s", "e", ".", "g", "o", "v", "/", "m", "e", "d", "i", "a", "/", "p", "r", "e", "s", "s", "-", "r", "e", "l", "e", "a", "s", "e", "s">>,
      <<"h", "t", "t", "p", "s", ":", "/", "/", "l", "a", "l", "o", "t", "a", ".", "h", "o", "u", "s", "e", ".", "g", "o", "v", "/", "m", "e", "d", "i", "a", "/", "p", "r", "e", "s", "s", "-", "r", "e", "l", "e", "a", "s", "e", "s">>,
      <<"h", "t", "t", "p", "s", ":", "/", "/", "v", "a", "s", "q", "u", "e", "z", ".", "h", "o", "u", "s", "e", ".", "g", "o", "v", "/", "m", "e", "d", "i", "a", "/", "p", "r", "e", "s", "s", "-", "r", "e", "l", "e", "a", "s", "e", "s">>,
      <<"h", "t", "t", "p", "s", ":", "/", "/", "s", "c", "h", "o", "l", "t", "e", "n", ".", "h", "o", "u", "s", "e", ".", "g", "o", "v", "/", "m", "e", "d", "i", "a", "/", "p", "r", "e", "s", "s", "-", "r", "e", "l", "e", "a", "s", "e", "s">>,
      <<"h", "t", "t", "p", "s", ":", "/", "/", "i", "v", "e", "y", ".", "h", "o", "u", "s", "e", ".", "g", "o", "v", "/", "m", "e", "d", "i", "a", "/", "p", "r", "e", "s", "s", "-", "r", "e", "l", "e", "a", "s", "e", "s">>,
      <<"h", "t", "t", "p", "s", ":", "/", "/", "s", "o", "r", "e", "n", "s", "e", "n", ".", "h", "o", "u", "s", "e", ".", "g", "o", "v", "/", "m", "e", "d", "i", "a", "/", "p", "r", "e", "s", "s", "-", "r", "e", "l", "e", "a", "s", "e", "s">>,
      <<"h", "t", "t", "p", "s", ":", "/", "/", "n", "u", "n", "n", ".", "h", "o", "u", "s", "e", ".", "g", "o", "v", "/", "m", "e", "d", "i", "a", "/", "p", "r", "e", "s", "s", "-", "r", "e", "l", "e", "a", "s", "e", "s">>,
      <<"h", "t", "t", "p", "s", ":", "/", "/", "l", "a", "u", "r", "e", "l", "l", "e", "e", ".", "h", "o", "u", "s", "e", ".", "g", "o", "v", "/", "m", "e", "d", "i", "a", "/", "p", "r", "e", "s", "s", "-", "r", "e", "l", "e", "a", "s", "e", "s">>,
      <<"h", "t", "t", "p", "s", ":", "/", "/", "m", "i", "l", "l", "s", ".", "h", "o", "u", "s", "e", ".", "g", "o", "v", "/", "m", "e", "d", "i", "a", "/", "p", "r", "e", "s", "s", "-", "r", "e", "l", "e", "a", "s", "e", "s">>,
      <<"h", "t", "t", "p", "s", ":", "/", "/", "c", "i", "s", "c", "o", "m", "a", "n", "i", ".", "h", "o", "u", "s", "e", ".", "g", "o", "v", "/", "m", "e", "d", "i", "a", "/", "p", "r", "e", "s", "s", "-", "r", "e", "l", "e", "a", "s", "e", "s">>,
      <<"h", "t", "t", "p", "s", ":", "/", "/", "d", "e", "m", "o", "c", "r", "a", "t", "i", "c", "l", "e", "a", "d", "e", "r", ".", "h", "o", "u", "s", "e", ".", "g", "o", "v", "/", "m", "e", "d", "i", "a", "/", "p", "r", "e", "s", "s", "-", "r", "e", "l", "e", "a", "s", "e", "s">>,
      <<"h", "t", "t", "p", "s", ":", "/", "/", "h", "o", "r", "s", "f", "o", "r", "d", ".", "h", "o", "u", "s", "e", ".", "g", "o", "v", "/", "m", "e", "d", "i", "a", "/", "p", "r", "e", "s", "s", "-", "r", "e", "l", "e", "a", "s", "e", "s">>,
      <<"h", "t", "t", "p", "s", ":", "/", "/", "c", "l", "e", "a", "v", "e", "r", ".", "h", "o", "u", "s", "e", ".", "g", "o", "v", "/", "m", "e", "d", "i", "a", "-", "c", "e", "n", "t", "e", "r", "/", "p", "r", "e", "s", "s", "-", "r", "e", "l", "e", "a", "s", "e", "s">>,
      <<"h", "t", "t", "p", "s", ":", "/", "/", "a", "d", "e", "r", "h", "o", "l", "t", ".", "h", "o", "u", "s", "e", ".", "g", "o", "v", "/", "m", "e", "d", "i", "a", "-", "c", "e", "n", "t", "e", "r", "/", "p", "r", "e", "s", "s", "-", "r", "e", "l", "e", "a", "s", "e", "s">>,
      <<"h", "t", "t", "p", "s", ":", "/", "/", "c", "o", "u", "r", "t", "n", "e", "y", ".", "h", "o", "u", "s", "e", ".", "g", "o", "v", "/", "m", "e", "d", "i", "a", "-", "c", "e", "n", "t", "e", "r", "/", "p", "r", "e", "s", "s", "-", "r", "e", "l", "e", "a", "s", "e", "s">>,
      <<"h", "t", "t", "p", "s", ":", "/", "/", "s", "t", "a", "u", "b", "e", "r", ".", "h", "o", "u", "s", "e", ".", "g", "o", "v", "/", "m", "e", "d", "i", "a", "/", "p", "r", "e", "s", "s", "-", "r", "e", "l", "e", "a", "s", "e", "s">>,
      <<"h", "t", "t", "p", "s", ":", "/", "/", "m", "c", "c", "a", "u", "l", ".", "h", "o", "u", "s", "e", ".", "g", "o", "v", "/", "m", "e", "d", "i", "a", "-", "c", "e", "n", "t", "e", "r", "/", "p", "r", "e", "s", "s", "-", "r", "e", "l", "e", "a", "s", "e", "s">>,
      <<"h", "t", "t", "p", "s", ":", "/", "/", "f", "o", "s", "t", "e", "r", ".", "h", "o", "u", "s", "e", ".", "g", "o", "v", "/", "m", "e", "d", "i", "a", "/", "p", "r", "e", "s", "s", "-", "r", "e", "l", "e", "a", "s", "e", "s">>,
      <<"h", "t", "t", "p", "s", ":", "/", "/", "s", "c", "h", "a", "k", "o", "w", "s", "k", "y", ".", "h", "o", "u", "s", "e", ".", "g", "o", "v", "/", "m", "e", "d", "i", "a", "/", "p", "r", "e", "s", "s", "-", "r", "e", "l", "e", "a", "s", "e", "s">>,
      <<"h", "t", "t", "p", "s", ":", "/", "/", "c", "r", "a", "i", "g", ".", "h", "o", "u", "s", "e", ".", "g", "o", "v", "/", "m", "e", "d", "i", "a", "/", "p", "r", "e", "s", "s", "-", "r", "e", "l", "e", "a", "s", "e", "s">>,
      <<"h", "t", "t", "p", "s", ":", "/", "/", "d", "e", "s", "a", "u", "l", "n", "i", "e", "r", ".", "h", "o", "u", "s", "e", ".", "g", "o", "v", "/", "m", "e", "d", "i", "a", "-", "c", "e", "n", "t", "e", "r", "/", "p", "r", "e", "s", "s", "-", "r", "e", "l", "e", "a", "s", "e", "s">>,
      <<"h", "t", "t", "p", "s", ":", "/", "/", "s", "c", "a", "l", "i", "s", "e", ".", "h", "o", "u", "s", "e", ".", "g", "o", "v", "/", "m", "e", "d", "i", "a", "/", "p", "r", "e", "s", "s", "-", "r", "e", "l", "e", "a", "s", "e", "s">>,
      <<"h", "t", "t", "p", "s", ":", "/", "/", "n", "e", "g", "u", "s", "e", ".", "h", "o", "u", "s", "e", ".", "g", "o", "v", "/", "m", "e", "d", "i", "a", "/", "p", "r", "e", "s", "s", "-", "r", "e", "l", "e", "a", "s", "e", "s">>,
      <<"h", "t", "t", "p", "s", ":", "/", "/", "m", "u", "r", "p", "h", "y", ".", "h", "o", "u", "s", "e", ".", "g", "o", "v", "/", "m", "e", "d", "i", "a", "/", "p", "r", "e", "s", "s", "-", "r", "e", "l", "e", "a", "s", "e", "s">>,
      <<"h", "t", "t", "p", "s", ":", "/", "/", "b", "o", "y", "l", "e", ".", "h", "o", "u", "s", "e", ".", "g", "o", "v", "/", "m", "e", "d", "i", "a", "-", "c", "e", "n", "t", "e", "r", "/", "p", "r", "e", "s", "s", "-", "r", "e", "l", "e", "a", "s", "e", "s">>,
      <<"h", "t", "t", "p", "s", ":", "/", "/", "c", "a", "l", "v", "e", "r", "t", ".", "h", "o", "u", "s", "e", ".", "g", "o", "v", "/", "m", "e", "d", "i", "a", "/", "p", "r", "e", "s", "s", "-", "r", "e", "l", "e", "a", "s", "e", "s">>,
      <<"h", "t", "t", "p", "s", ":", "/", "/", "b", "o", "b", "b", "y", "s", "c", "o", "t", "t", ".", "h", "o", "u", "s", "e", ".", "g", "o", "v", "/", "m", "e", "d", "i", "a", "-", "c", "e", "n", "t", "e", "r", "/", "p", "r", "e", "s", "s", "-", "r", "e", "l", "e", "a", "s", "e", "s">>,
      <<"h", "t", "t", "p", "s", ":", "/", "/", "b", "i", "l", "i", "r", "a", "k", "i", "s", ".", "h", "o", "u", "s", "e", ".", "g", "o", "v", "/", "m", "e", "d", "i", "a", "/", "p", "r", "e", "s", "s", "-", "r", "e", "l", "e", "a", "s", "e", "s">>,
      <<"h", "t", "t", "p", "s", ":", "/", "/", "d", "e", "l", "a", "u", "r", "o", ".", "h", "o", "u", "s", "e", ".", "g", "o", "v", "/", "m", "e", "d", "i", "a", "-", "c", "e", "n", "t", "e", "r", "/", "p", "r", "e", "s", "s", "-", "r", "e", "l", "e", "a", "s", "e", "s">>,
      <<"h", "t", "t", "p", "s", ":", "/", "/", "n", "o", "r", "t", "o", "n", ".", "h", "o", "u", "s", "e", ".", "g", "o", "v", "/", "m", "e", "d", "i", "a", "/", "p", "r", "e", "s", "s", "-", "r", "e", "l", "e", "a", "s", "e", "s">>,
      <<"h", "t", "t", "p", "s", ":", "/", "/", "m", "i", "k", "e", "t", "h", "o", "m", "p", "s", "o", "n", ".", "h", "o", "u", "s", "e", ".", "g", "o", "v", "/", "n", "e", "w", "s", "r", "o", "o", "m", "/", "p", "r", "e", "s", "s", "-", "r", "e", "l", "e", "a", "s", "e", "s">>,
      <<"h", "t", "t", "p", "s", ":", "/", "/", "s", "m", "u", "c", "k", "e", "r", ".", "h", "o", "u", "s", "e", ".", "g", "o", "v", "/", "m", "e", "d", "i", "a", "/", "p", "r", "e", "s", "s", "-", "r", "e", "l", "e", "a", "s", "e", "s">>,
      <<"h", "t", "t", "p", "s", ":", "/", "/", "d", "e", "g", "e", "t", "t", "e", ".", "h", "o", "u", "s", "e", ".", "g", "o", "v", "/", "m", "e", "d", "i", "a", "-", "c", "e", "n", "t", "e", "r", "/", "p", "r", "e", "s", "s", "-", "r", "e", "l", "e", "a", "s", "e", "s">>,
      <<"h", "t", "t", "p", "s", ":", "/", "/", "r", "u", "i", "z", ".", "h", "o", "u", "s", "e", ".", "g", "o", "v", "/", "m", "e", "d", "i", "a", "-", "c", "e", "n", "t", "e", "r", "/", "p", "r", "e", "s", "s", "-", "r", "e", "l", "e", "a", "s", "e", "s">>,
      <<"h", "t", "t", "p", "s", ":", "/", "/", "s", "h", "e", "r", "m", "a", "n", ".", "h", "o", "u", "s", "e", ".", "g", "o", "v", "/", "m", "e", "d", "i", "a", "-", "c", "e", "n", "t", "e", "r", "/", "p", "r", "e", "s", "s", "-", "r", "e", "l", "e", "a", "s", "e", "s">>,
      <<"h", "t", "t", "p", "s", ":", "/", "/", "q", "u", "i", "g", "l", "e", "y", ".", "h", "o", "u", "s", "e", ".", "g", "o", "v", "/", "m", "e", "d", "i", "a", "-", "c", "e", "n", "t", "e", "r", "/", "p", "r", "e", "s", "s", "-", "r", "e", "l", "e", "a", "s", "e", "s">>,
      <<"h", "t", "t", "p", "s", ":", "/", "/", "w", "a", "t", "e", "r", "s", ".", "h", "o", "u", "s", "e", ".", "g", "o", "v", "/", "m", "e", "d", "i", "a", "-", "c", "e", "n", "t", "e", "r", "/", "p", "r", "e", "s", "s", "-", "r", "e", "l", "e", "a", "s", "e", "s">>,
      <<"h", "t", "t", "p", "s", ":", "/", "/", "s", "w", "a", "l", "w", "e", "l", "l", ".", "h", "o", "u", "s", "e", ".", "g", "o", "v", "/", "m", "e", "d", "i", "a", "-", "c", "e", "n", "t", "e", "r", "/", "p", "r", "e", "s", "s", "-", "r", "e", "l", "e", "a", "s", "e", "s">>,
      <<"h", "t", "t", "p", "s", ":", "/", "/", "k", "h", "a", "n", "n", "a", ".", "h", "o", "u", "s", "e", ".", "g", "o", "v", "/", "m", "e", "d", "i", "a", "/", "p", "r", "e", "s", "s", "-", "r", "e", "l", "e", "a", "s", "e", "s">>,
      <<"h", "t", "t", "p", "s", ":", "/", "/", "p", "a", "n", "e", "t", "t", "a", ".", "h", "o", "u", "s", "e", ".", "g", "o", "v", "/", "m", "e", "d", "i", "a", "/", "p", "r", "e", "s", "s", "-", "r", "e", "l", "e", "a", "s", "e", "s">>,
      <<"h", "t", "t", "p", "s", ":", "/", "/", "s", "c", "h", "n", "e", "i", "d", "e", "r", ".", "h", "o", "u", "s", "e", ".", "g", "o", "v", "/", "m", "e", "d", "i", "a", "/", "p", "r", "e", "s", "s", "-", "r", "e", "l", "e", "a", "s", "e", "s">>,
      <<"h", "t", "t", "p", "s", ":", "/", "/", "d", "a", "n", "k", "i", "l", "d", "e", "e", ".", "h", "o", "u", "s", "e", ".", "g", "o", "v", "/", "m", "e", "d", "i", "a", "/", "p", "r", "e", "s", "s", "-", "r", "e", "l", "e", "a", "s", "e", "s">>,
      <<"h", "t", "t", "p", "s", ":", "/", "/", "s", "y", "l", "v", "i", "a", "g", "a", "r", "c", "i", "a", ".", "h", "o", "u", "s", "e", ".", "g", "o", "v", "/", "m", "e", "d", "i", "a", "/", "p", "r", "e", "s", "s", "-", "r", "e", "l", "e", "a", "s", "e", "s">>,
      <<"h", "t", "t", "p", "s", ":", "/", "/", "s", "u", "s", "i", "e", "l", "e", "e", ".", "h", "o", "u", "s", "e", ".", "g", "o", "v", "/", "m", "e", "d", "i", "a", "/", "p", "r", "e", "s", "s", "-", "r", "e", "l", "e", "a", "s", "e", "s">>,
      <<"h", "t", "t", "p", "s", ":", "/", "/", "a", "m", "o", ".", "h", "o", "u", "s", "e", ".", "g", "o", "v", "/", "p", "r", "e", "s", "s", "-", "r", "e", "l", "e", "a", "s", "e", "s">>,
      <<"h", "t", "t", "p", "s", ":", "/", "/", "m", "c", "c", "l", "e", "l", "l", "a", "n", ".", "h", "o", "u", "s", "e", ".", "g", "o", "v", "/", "m", "e", "d", "i", "a", "/", "p", "r", "e", "s", "s", "-", "r", "e", "l", "e", "a", "s", "e", "s">>,
      <<"h", "t", "t", "p", "s", ":", "/", "/", "r", "u", "l", "l", "i", ".", "h", "o", "u", "s", "e", ".", "g", "o", "v", "/", "m", "e", "d", "i", "a", "/", "p", "r", "e", "s", "s", "-", "r", "e", "l", "e", "a", "s", "e", "s">>,
      <<"h", "t", "t", "p", "s", ":", "/", "/", "s", "u", "o", "z", "z", "i", ".", "h", "o", "u", "s", "e", ".", "g", "o", "v", "/", "m", "e", "d", "i", "a", "/", "p", "r", "e", "s", "s", "-", "r", "e", "l", "e", "a", "s", "e", "s">>,
      <<"h", "t", "t", "p", "s", ":", "/", "/", "f", "o", "n", "g", ".", "h", "o", "u", "s", "e", ".", "g", "o", "v", "/", "m", "e", "d", "i", "a", "/", "p", "r", "e", "s", "s", "-", "r", "e", "l", "e", "a", "s", "e", "s">>,
      <<"h", "t", "t", "p", "s", ":", "/", "/", "l", "o", "p", "e", "z", ".", "h", "o", "u", "s", "e", ".", "g", "o", "v", "/", "m", "e", "d", "i", "a", "/", "p", "r", "e", "s", "s", "-", "r", "e", "l", "e", "a", "s", "e", "s">>,
      <<"h", "t", "t", "p", "s", ":", "/", "/", "m", "c", "i", "v", "e", "r", ".", "h", "o", "u", "s", "e", ".", "g", "o", "v", "/", "m", "e", "d", "i", "a", "/", "p", "r", "e", "s", "s", "-", "r", "e", "l", "e", "a", "s", "e", "s">>,
      <<"h", "t", "t", "p", "s", ":", "/", "/", "w", "i", "e", "d", ".", "h", "o", "u", "s", "e", ".", "g", "o", "v", "/", "m", "e", "d", "i", "a", "/", "p", "r", "e", "s", "s", "-", "r", "e", "l", "e", "a", "s", "e", "s">>,
      <<"h", "t", "t", "p", "s", ":", "/", "/", "e", "r", "i", "c", "a", "l", "e", "e", "c", "a", "r", "t", "e", "r", ".", "h", "o", "u", "s", "e", ".", "g", "o", "v", "/", "m", "e", "d", "i", "a", "/", "p", "r", "e", "s", "s", "-", "r", "e", "l", "e", "a", "s", "e", "s">>,
      <<"h", "t", "t", "p", "s", ":", "/", "/", "m", "o", "u", "l", "t", "o", "n", ".", "h", "o", "u", "s", "e", ".", "g", "o", "v", "/", "n", "e", "w", "s", "/", "p", "r", "e", "s", "s", "-", "r", "e", "l", "e", "a", "s", "e", "s">>,
      <<"h", "t", "t", "p", "s", ":", "/", "/", "n", "e", "h", "l", "s", ".", "h", "o", "u", "s", "e", ".", "g", "o", "v", "/", "m", "e", "d", "i", "a">>,
      <<"h", "t", "t", "p", "s", ":", "/", "/", "m", "e", "n", "g", ".", "h", "o", "u", "s", "e", ".", "g", "o", "v", "/", "m", "e", "d", "i", "a", "-", "c", "e", "n", "t", "e", "r", "/", "p", "r", "e", "s", "s", "-", "r", "e", "l", "e", "a", "s", "e", "s">>,
      <<"h", "t", "t", "p", "s", ":", "/", "/", "l", "i", "n", "d", "a", "s", "a", "n", "c", "h", "e", "z", ".", "h", "o", "u", "s", "e", ".", "g", "o", "v", "/", "m", "e", "d", "i", "a", "-", "c", "e", "n", "t", "e", "r", "/", "p", "r", "e", "s", "s", "-", "r", "e", "l", "e", "a", "s", "e", "s">>,
      <<"h", "t", "t", "p", "s", ":", "/", "/", "l", "a", "m", "a", "l", "f", "a", ".", "h", "o", "u", "s", "e", ".", "g", "o", "v", "/", "m", "e", "d", "i", "a", "-", "c", "e", "n", "t", "e", "r", "/", "p", "r", "e", "s", "s", "-", "r", "e", "l", "e", "a", "s", "e", "s">>,
      <<"h", "t", "t", "p", "s", ":", "/", "/", "d", "o", "n", "d", "a", "v", "i", "s", ".", "h", "o", "u", "s", "e", ".", "g", "o", "v", "/", "m", "e", "d", "i", "a", "/", "p", "r", "e", "s", "s", "-", "r", "e", "l", "e", "a", "s", "e", "s">>,
      <<"h", "t", "t", "p", "s", ":", "/", "/", "s", "t", "r", "o", "n", "g", ".", "h", "o", "u", "s", "e", ".", "g", "o", "v", "/", "m", "e", "d", "i", "a", "/", "p", "r", "e", "s", "s", "-", "r", "e", "l", "e", "a", "s", "e", "s">>,
      <<"h", "t", "t", "p", "s", ":", "/", "/", "c", "h", "u", ".", "h", "o", "u", "s", "e", ".", "g", "o", "v", "/", "m", "e", "d", "i", "a", "-", "c", "e", "n", "t", "e", "r", "/", "p", "r", "e", "s", "s", "-", "r", "e", "l", "e", "a", "s", "e", "s">>,
      <<"h", "t", "t", "p", "s", ":", "/", "/", "l", "i", "e", "u", ".", "h", "o", "u", "s", "e", ".", "g", "o", "v", "/", "m", "e", "d", "i", "a", "-", "c", "e", "n", "t", "e", "r", "/", "p", "r", "e", "s", "s", "-", "r", "e", "l", "e", "a", "s", "e", "s">>,
      <<"h", "t", "t", "p", "s", ":", "/", "/", "j", "o", "e", "w", "i", "l", "s", "o", "n", ".", "h", "o", "u", "s", "e", ".", "g", "o", "v", "/", "m", "e", "d", "i", "a", "/", "p", "r", "e", "s", "s", "-", "r", "e", "l", "e", "a", "s", "e", "s">>,
      <<"h", "t", "t", "p", "s", ":", "/", "/", "z", "i", "n", "k", "e", ".", "h", "o", "u", "s", "e", ".", "g", "o", "v", "/", "m", "e", "d", "i", "a", "/", "p", "r", "e", "s", "s", "-", "r", "e", "l", "e", "a", "s", "e", "s">>,
      <<"h", "t", "t", "p", "s", ":", "/", "/", "p", "e", "l", "o", "s", "i", ".", "h", "o", "u", "s", "e", ".", "g", "o", "v", "/", "n", "e", "w", "s", "/", "p", "r", "e", "s", "s", "-", "r", "e", "l", "e", "a", "s", "e", "s">>,
      <<"h", "t", "t", "p", "s", ":", "/", "/", "r", "u", "t", "h", "e", "r", "f", "o", "r", "d", ".", "h", "o", "u", "s", "e", ".", "g", "o", "v", "/", "m", "e", "d", "i", "a", "/", "p", "r", "e", "s", "s", "-", "r", "e", "l", "e", "a", "s", "e", "s">>,
      <<"h", "t", "t", "p", "s", ":", "/", "/", "v", "e", "a", "s", "e", "y", ".", "h", "o", "u", "s", "e", ".", "g", "o", "v", "/", "m", "e", "d", "i", "a", "-", "c", "e", "n", "t", "e", "r", "/", "p", "r", "e", "s", "s", "-", "r", "e", "l", "e", "a", "s", "e", "s">>,
      <<"h", "t", "t", "p", "s", ":", "/", "/", "g", "a", "r", "a", "m", "e", "n", "d", "i", ".", "h", "o", "u", "s", "e", ".", "g", "o", "v", "/", "m", "e", "d", "i", "a", "/", "p", "r", "e", "s", "s", "-", "r", "e", "l", "e", "a", "s", "e", "s">>,
      <<"h", "t", "t", "p", "s", ":", "/", "/", "k", "u", "s", "t", "o", "f", "f", ".", "h", "o", "u", "s", "e", ".", "g", "o", "v", "/", "m", "e", "d", "i", "a", "/", "p", "r", "e", "s", "s", "-", "r", "e", "l", "e", "a", "s", "e", "s">>,
      <<"h", "t", "t", "p", "s", ":", "/", "/", "g", "o", "n", "z", "a", "l", "e", "z", ".", "h", "o", "u", "s", "e", ".", "g", "o", "v", "/", "m", "e", "d", "i", "a", "/", "p", "r", "e", "s", "s", "-", "r", "e", "l", "e", "a", "s", "e", "s">>,
      <<"h", "t", "t", "p", "s", ":", "/", "/", "c", "o", "s", "t", "a", ".", "h", "o", "u", "s", "e", ".", "g", "o", "v", "/", "m", "e", "d", "i", "a", "/", "p", "r", "e", "s", "s", "-", "r", "e", "l", "e", "a", "s", "e", "s">>,
      <<"h", "t", "t", "p", "s", ":", "/", "/", "h", "o", "u", "c", "h", "i", "n", ".", "h", "o", "u", "s", "e", ".", "g", "o", "v", "/", "m", "e", "d", "i", "a", "/", "p", "r", "e", "s", "s", "-", "r", "e", "l", "e", "a", "s", "e", "s">>,
      <<"h", "t", "t", "p", "s", ":", "/", "/", "w", "i", "l", "l", "i", "a", "m", "s", ".", "h", "o", "u", "s", "e", ".", "g", "o", "v", "/", "m", "e", "d", "i", "a", "-", "c", "e", "n", "t", "e", "r", "/", "p", "r", "e", "s", "s", "-", "r", "e", "l", "e", "a", "s", "e", "s">>,
      <<"h", "t", "t", "p", "s", ":", "/", "/", "m", "e", "n", "e", "n", "d", "e", "z", ".", "h", "o", "u", "s", "e", ".", "g", "o", "v", "/", "m", "e", "d", "i", "a", "/", "p", "r", "e", "s", "s", "-", "r", "e", "l", "e", "a", "s", "e", "s">>,
      <<"h", "t", "t", "p", "s", ":", "/", "/", "p", "o", "c", "a", "n", ".", "h", "o", "u", "s", "e", ".", "g", "o", "v", "/", "m", "e", "d", "i", "a", "-", "c", "e", "n", "t", "e", "r", "/", "p", "r", "e", "s", "s", "-", "r", "e", "l", "e", "a", "s", "e", "s">>,
      <<"h", "t", "t", "p", "s", ":", "/", "/", "o", "g", "l", "e", "s", ".", "h", "o", "u", "s", "e", ".", "g", "o", "v", "/", "m", "e", "d", "i", "a", "/", "p", "r", "e", "s", "s", "-", "r", "e", "l", "e", "a", "s", "e", "s">>,
      <<"h", "t", "t", "p", "s", ":", "/", "/", "v", "e", "l", "a", "z", "q", "u", "e", "z", ".", "h", "o", "u", "s", "e", ".", "g", "o", "v", "/", "m", "e", "d", "i", "a", "-", "c", "e", "n", "t", "e", "r", "/", "p", "r", "e", "s", "s", "-", "r", "e", "l", "e", "a", "s", "e", "s">>,
      <<"h", "t", "t", "p", "s", ":", "/", "/", "b", "o", "n", "a", "m", "i", "c", "i", ".", "h", "o", "u", "s", "e", ".", "g", "o", "v", "/", "m", "e", "d", "i", "a", "/", "p", "r", "e", "s", "s", "-", "r", "e", "l", "e", "a", "s", "e", "s">>,
      <<"h", "t", "t", "p", "s", ":", "/", "/", "k", "e", "i", "t", "h", "s", "e", "l", "f", ".", "h", "o", "u", "s", "e", ".", "g", "o", "v", "/", "m", "e", "d", "i", "a", "/", "p", "r", "e", "s", "s", "-", "r", "e", "l", "e", "a", "s", "e", "s">>,
      <<"h", "t", "t", "p", "s", ":", "/", "/", "b", "i", "s", "h", "o", "p", ".", "h", "o", "u", "s", "e", ".", "g", "o", "v", "/", "m", "e", "d", "i", "a", "-", "c", "e", "n", "t", "e", "r", "/", "p", "r", "e", "s", "s", "-", "r", "e", "l", "e", "a", "s", "e", "s">>,
      <<"h", "t", "t", "p", "s", ":", "/", "/", "h", "o", "y", "e", "r", ".", "h", "o", "u", "s", "e", ".", "g", "o", "v", "/", "m", "e", "d", "i", "a">>,
      <<"h", "t", "t", "p", "s", ":", "/", "/", "b", "u", "r", "l", "i", "s", "o", "n", ".", "h", "o", "u", "s", "e", ".", "g", "o", "v", "/", "m", "e", "d", "i", "a", "/", "p", "r", "e", "s", "s", "-", "r", "e", "l", "e", "a", "s", "e", "s">>,
      <<"h", "t", "t", "p", "s", ":", "/", "/", "j", "o", "n", "a", "t", "h", "a", "n", "j", "a", "c", "k", "s", "o", "n", ".", "h", "o", "u", "s", "e", ".", "g", "o", "v", "/", "m", "e", "d", "i", "a", "/", "p", "r", "e", "s", "s", "-", "r", "e", "l", "e", "a", "s", "e", "s">>,
      <<"h", "t", "t", "p", "s", ":", "/", "/", "d", "a", "v", "i", "d", "s", ".", "h", "o", "u", "s", "e", ".", "g", "o", "v", "/", "m", "e", "d", "i", "a", "/", "p", "r", "e", "s", "s", "-", "r", "e", "l", "e", "a", "s", "e", "s">>,
      <<"h", "t", "t", "p", "s", ":", "/", "/", "m", "c", "c", "o", "l", "l", "u", "m", ".", "h", "o", "u", "s", "e", ".", "g", "o", "v", "/", "m", "e", "d", "i", "a", "/", "p", "r", "e", "s", "s", "-", "r", "e", "l", "e", "a", "s", "e", "s">>,
      <<"h", "t", "t", "p", "s", ":", "/", "/", "a", "d", "a", "m", "s", "m", "i", "t", "h", ".", "h", "o", "u", "s", "e", ".", "g", "o", "v", "/", "n", "e", "w", "s", "/", "p", "r", "e", "s", "s", "-", "r", "e", "l", "e", "a", "s", "e", "s">>,
      <<"h", "t", "t", "p", "s", ":", "/", "/", "h", "a", "n", "k", "j", "o", "h", "n", "s", "o", "n", ".", "h", "o", "u", "s", "e", ".", "g", "o", "v", "/", "m", "e", "d", "i", "a", "-", "c", "e", "n", "t", "e", "r", "/", "p", "r", "e", "s", "s", "-", "r", "e", "l", "e", "a", "s", "e", "s">>,
      <<"h", "t", "t", "p", "s", ":", "/", "/", "e", "v", "a", "n", "s", ".", "h", "o", "u", "s", "e", ".", "g", "o", "v", "/", "m", "e", "d", "i", "a", "/", "p", "r", "e", "s", "s", "-", "r", "e", "l", "e", "a", "s", "e", "s">>,
      <<"h", "t", "t", "p", "s", ":", "/", "/", "s", "a", "l", "i", "n", "a", "s", ".", "h", "o", "u", "s", "e", ".", "g", "o", "v", "/", "m", "e", "d", "i", "a", "/", "p", "r", "e", "s", "s", "-", "r", "e", "l", "e", "a", "s", "e", "s">>,
      <<"h", "t", "t", "p", "s", ":", "/", "/", "p", "a", "l", "l", "o", "n", "e", ".", "h", "o", "u", "s", "e", ".", "g", "o", "v", "/", "m", "e", "d", "i", "a", "/", "p", "r", "e", "s", "s", "-", "r", "e", "l", "e", "a", "s", "e", "s">>,
      <<"h", "t", "t", "p", "s", ":", "/", "/", "r", "a", "m", "i", "r", "e", "z", ".", "h", "o", "u", "s", "e", ".", "g", "o", "v", "/", "m", "e", "d", "i", "a", "/", "p", "r", "e", "s", "s", "-", "r", "e", "l", "e", "a", "s", "e", "s">>,
      <<"h", "t", "t", "p", "s", ":", "/", "/", "g", "r", "a", "v", "e", "s", ".", "h", "o", "u", "s", "e", ".", "g", "o", "v", "/", "m", "e", "d", "i", "a", "/", "p", "r", "e", "s", "s", "-", "r", "e", "l", "e", "a", "s", "e", "s">>,
      <<"h", "t", "t", "p", "s", ":", "/", "/", "c", "o", "l", "e", ".", "h", "o", "u", "s", "e", ".", "g", "o", "v", "/", "m", "e", "d", "i", "a", "-", "c", "e", "n", "t", "e", "r", "/", "p", "r", "e", "s", "s", "-", "r", "e", "l", "e", "a", "s", "e", "s">>,
      <<"h", "t", "t", "p", "s", ":", "/", "/", "j", "o", "r", "d", "a", "n", ".", "h", "o", "u", "s", "e", ".", "g", "o", "v", "/", "m", "e", "d", "i", "a", "/", "p", "r", "e", "s", "s", "-", "r", "e", "l", "e", "a", "s", "e", "s">>,
      <<"h", "t", "t", "p", "s", ":", "/", "/", "h", "a", "g", "e", "m", "a", "n", ".", "h", "o", "u", "s", "e", ".", "g", "o", "v", "/", "m", "e", "d", "i", "a", "/", "p", "r", "e", "s", "s", "-", "r", "e", "l", "e", "a", "s", "e", "s">>,
      <<"h", "t", "t", "p", "s", ":", "/", "/", "f", "i", "g", "u", "r", "e", "s", ".", "h", "o", "u", "s", "e", ".", "g", "o", "v", "/", "m", "e", "d", "i", "a">>,
      <<"h", "t", "t", "p", "s", ":", "/", "/", "b", "e", "g", "i", "c", "h", ".", "h", "o", "u", "s", "e", ".", "g", "o", "v", "/", "m", "e", "d", "i", "a", "/", "p", "r", "e", "s", "s", "-", "r", "e", "l", "e", "a", "s", "e", "s">>,
      <<"h", "t", "t", "p", "s", ":", "/", "/", "a", "n", "s", "a", "r", "i", ".", "h", "o", "u", "s", "e", ".", "g", "o", "v", "/", "m", "e", "d", "i", "a", "/", "p", "r", "e", "s", "s", "-", "r", "e", "l", "e", "a", "s", "e", "s">>,
      <<"h", "t", "t", "p", "s", ":", "/", "/", "s", "i", "m", "o", "n", ".", "h", "o", "u", "s", "e", ".", "g", "o", "v", "/", "m", "e", "d", "i", "a", "/", "p", "r", "e", "s", "s", "-", "r", "e", "l", "e", "a", "s", "e", "s">>,
      <<"h", "t", "t", "p", "s", ":", "/", "/", "g", "r", "a", "y", ".", "h", "o", "u", "s", "e", ".", "g", "o", "v", "/", "m", "e", "d", "i", "a", "/", "p", "r", "e", "s", "s", "-", "r", "e", "l", "e", "a", "s", "e", "s">>,
      <<"h", "t", "t", "p", "s", ":", "/", "/", "l", "i", "c", "c", "a", "r", "d", "o", ".", "h", "o", "u", "s", "e", ".", "g", "o", "v", "/", "m", "e", "d", "i", "a", "/", "p", "r", "e", "s", "s", "-", "r", "e", "l", "e", "a", "s", "e", "s">>,
      <<"h", "t", "t", "p", "s", ":", "/", "/", "r", "i", "v", "a", "s", ".", "h", "o", "u", "s", "e", ".", "g", "o", "v", "/", "m", "e", "d", "i", "a", "/", "p", "r", "e", "s", "s", "-", "r", "e", "l", "e", "a", "s", "e", "s">>,
      <<"h", "t", "t", "p", "s", ":", "/", "/", "f", "r", "i", "e", "d", "m", "a", "n", ".", "h", "o", "u", "s", "e", ".", "g", "o", "v", "/", "m", "e", "d", "i", "a", "/", "p", "r", "e", "s", "s", "-", "r", "e", "l", "e", "a", "s", "e", "s">>,
      <<"h", "t", "t", "p", "s", ":", "/", "/", "t", "r", "a", "n", ".", "h", "o", "u", "s", "e", ".", "g", "o", "v", "/", "m", "e", "d", "i", "a", "/", "p", "r", "e", "s", "s", "-", "r", "e", "l", "e", "a", "s", "e", "s">>,
      <<"h", "t", "t", "p", "s", ":", "/", "/", "m", "i", "n", ".", "h", "o", "u", "s", "e", ".", "g", "o", "v", "/", "m", "e", "d", "i", "a", "/", "p", "r", "e", "s", "s", "-", "r", "e", "l", "e", "a", "s", "e", "s">>,
      <<"h", "t", "t", "p", "s", ":", "/", "/", "h", "u", "r", "d", ".", "h", "o", "u", "s", "e", ".", "g", "o", "v", "/", "m", "e", "d", "i", "a", "/", "p", "r", "e", "s", "s", "-", "r", "e", "l", "e", "a", "s", "e", "s">>,
      <<"h", "t", "t", "p", "s", ":", "/", "/", "c", "r", "a", "n", "k", ".", "h", "o", "u", "s", "e", ".", "g", "o", "v", "/", "m", "e", "d", "i", "a", "/", "p", "r", "e", "s", "s", "-", "r", "e", "l", "e", "a", "s", "e", "s">>,
      <<"h", "t", "t", "p", "s", ":", "/", "/", "g", "a", "b", "e", "e", "v", "a", "n", "s", ".", "h", "o", "u", "s", "e", ".", "g", "o", "v", "/", "m", "e", "d", "i", "a", "/", "p", "r", "e", "s", "s", "-", "r", "e", "l", "e", "a", "s", "e", "s">>,
      <<"h", "t", "t", "p", "s", ":", "/", "/", "m", "c", "b", "r", "i", "d", "e", ".", "h", "o", "u", "s", "e", ".", "g", "o", "v", "/", "m", "e", "d", "i", "a", "/", "p", "r", "e", "s", "s", "-", "r", "e", "l", "e", "a", "s", "e", "s">>,
      <<"h", "t", "t", "p", "s", ":", "/", "/", "h", "a", "r", "i", "d", "o", "p", "o", "l", "o", "s", ".", "h", "o", "u", "s", "e", ".", "g", "o", "v", "/", "m", "e", "d", "i", "a", "/", "p", "r", "e", "s", "s", "-", "r", "e", "l", "e", "a", "s", "e", "s">>,
      <<"h", "t", "t", "p", "s", ":", "/", "/", "j", "a", "c", "k", ".", "h", "o", "u", "s", "e", ".", "g", "o", "v", "/", "m", "e", "d", "i", "a", "/", "p", "r", "e", "s", "s", "-", "r", "e", "l", "e", "a", "s", "e", "s">>,
      <<"h", "t", "t", "p", "s", ":", "/", "/", "s", "t", "u", "t", "z", "m", "a", "n", ".", "h", "o", "u", "s", "e", ".", "g", "o", "v", "/", "m", "e", "d", "i", "a", "/", "p", "r", "e", "s", "s", "-", "r", "e", "l", "e", "a", "s", "e", "s">>,
      <<"h", "t", "t", "p", "s", ":", "/", "/", "s", "h", "r", "e", "v", "e", ".", "h", "o", "u", "s", "e", ".", "g", "o", "v", "/", "m", "e", "d", "i", "a", "/", "p", "r", "e", "s", "s", "-", "r", "e", "l", "e", "a", "s", "e", "s">>,
      <<"h", "t", "t", "p", "s", ":", "/", "/", "f", "i", "e", "l", "d", "s", ".", "h", "o", "u", "s", "e", ".", "g", "o", "v", "/", "m", "e", "d", "i", "a", "/", "p", "r", "e", "s", "s", "-", "r", "e", "l", "e", "a", "s", "e", "s">>,
      <<"h", "t", "t", "p", "s", ":", "/", "/", "o", "l", "s", "z", "e", "w", "s", "k", "i", ".", "h", "o", "u", "s", "e", ".", "g", "o", "v", "/", "m", "e", "d", "i", "a", "/", "p", "r", "e", "s", "s", "-", "r", "e", "l", "e", "a", "s", "e", "s">>,
      <<"h", "t", "t", "p", "s", ":", "/", "/", "e", "l", "f", "r", "e", "t", "h", ".", "h", "o", "u", "s", "e", ".", "g", "o", "v", "/", "m", "e", "d", "i", "a", "/", "p", "r", "e", "s", "s", "-", "r", "e", "l", "e", "a", "s", "e", "s">>,
      <<"h", "t", "t", "p", "s", ":", "/", "/", "m", "c", "c", "l", "a", "i", "n", "d", "e", "l", "a", "n", "e", "y", ".", "h", "o", "u", "s", "e", ".", "g", "o", "v", "/", "m", "e", "d", "i", "a", "/", "p", "r", "e", "s", "s", "-", "r", "e", "l", "e", "a", "s", "e", "s">>,
      <<"h", "t", "t", "p", "s", ":", "/", "/", "m", "c", "d", "o", "n", "a", "l", "d", "r", "i", "v", "e", "t", ".", "h", "o", "u", "s", "e", ".", "g", "o", "v", "/", "m", "e", "d", "i", "a", "/", "p", "r", "e", "s", "s", "-", "r", "e", "l", "e", "a", "s", "e", "s">>,
      <<"h", "t", "t", "p", "s", ":", "/", "/", "b", "a", "r", "r", "e", "t", "t", ".", "h", "o", "u", "s", "e", ".", "g", "o", "v", "/", "m", "e", "d", "i", "a", "/", "p", "r", "e", "s", "s", "-", "r", "e", "l", "e", "a", "s", "e", "s">>,
      <<"h", "t", "t", "p", "s", ":", "/", "/", "m", "o", "r", "r", "i", "s", "o", "n", ".", "h", "o", "u", "s", "e", ".", "g", "o", "v", "/", "m", "e", "d", "i", "a", "/", "p", "r", "e", "s", "s", "-", "r", "e", "l", "e", "a", "s", "e", "s">>,
      <<"h", "t", "t", "p", "s", ":", "/", "/", "b", "e", "l", "l", ".", "h", "o", "u", "s", "e", ".", "g", "o", "v", "/", "m", "e", "d", "i", "a", "/", "p", "r", "e", "s", "s", "-", "r", "e", "l", "e", "a", "s", "e", "s">>,
      <<"h", "t", "t", "p", "s", ":", "/", "/", "d", "o", "w", "n", "i", "n", "g", ".", "h", "o", "u", "s", "e", ".", "g", "o", "v", "/", "m", "e", "d", "i", "a", "/", "p", "r", "e", "s", "s", "-", "r", "e", "l", "e", "a", "s", "e", "s">>,
      <<"h", "t", "t", "p", "s", ":", "/", "/", "g", "o", "o", "d", "l", "a", "n", "d", "e", "r", ".", "h", "o", "u", "s", "e", ".", "g", "o", "v", "/", "m", "e", "d", "i", "a", "/", "p", "r", "e", "s", "s", "-", "r", "e", "l", "e", "a", "s", "e", "s">>,
      <<"h", "t", "t", "p", "s", ":", "/", "/", "p", "o", "u", ".", "h", "o", "u", "s", "e", ".", "g", "o", "v", "/", "m", "e", "d", "i", "a", "/", "p", "r", "e", "s", "s", "-", "r", "e", "l", "e", "a", "s", "e", "s">>,
      <<"h", "t", "t", "p", "s", ":", "/", "/", "m", "c", "i", "v", "e", "r", ".", "h", "o", "u", "s", "e", ".", "g", "o", "v", "/", "m", "e", "d", "i", "a", "/", "p", "r", "e", "s", "s", "-", "r", "e", "l", "e", "a", "s", "e", "s">>,
      <<"h", "t", "t", "p", "s", ":", "/", "/", "g", "i", "l", "l", "e", "n", ".", "h", "o", "u", "s", "e", ".", "g", "o", "v", "/", "m", "e", "d", "i", "a", "/", "p", "r", "e", "s", "s", "-", "r", "e", "l", "e", "a", "s", "e", "s">>,
      <<"h", "t", "t", "p", "s", ":", "/", "/", "l", "a", "t", "i", "m", "e", "r", ".", "h", "o", "u", "s", "e", ".", "g", "o", "v", "/", "m", "e", "d", "i", "a", "/", "p", "r", "e", "s", "s", "-", "r", "e", "l", "e", "a", "s", "e", "s">>,
      <<"h", "t", "t", "p", "s", ":", "/", "/", "r", "i", "l", "e", "y", ".", "h", "o", "u", "s", "e", ".", "g", "o", "v", "/", "m", "e", "d", "i", "a", "/", "p", "r", "e", "s", "s", "-", "r", "e", "l", "e", "a", "s", "e", "s">>,
      <<"h", "t", "t", "p", "s", ":", "/", "/", "m", "a", "n", "n", "i", "o", "n", ".", "h", "o", "u", "s", "e", ".", "g", "o", "v", "/", "m", "e", "d", "i", "a", "/", "p", "r", "e", "s", "s", "-", "r", "e", "l", "e", "a", "s", "e", "s">>,
      <<"h", "t", "t", "p", "s", ":", "/", "/", "m", "c", "d", "o", "w", "e", "l", "l", ".", "h", "o", "u", "s", "e", ".", "g", "o", "v", "/", "m", "e", "d", "i", "a", "/", "p", "r", "e", "s", "s", "-", "r", "e", "l", "e", "a", "s", "e", "s">>,
      <<"h", "t", "t", "p", "s", ":", "/", "/", "m", "a", "r", "k", "h", "a", "r", "r", "i", "s", ".", "h", "o", "u", "s", "e", ".", "g", "o", "v", "/", "m", "e", "d", "i", "a", "/", "p", "r", "e", "s", "s", "-", "r", "e", "l", "e", "a", "s", "e", "s">>,
      <<"h", "t", "t", "p", "s", ":", "/", "/", "h", "a", "r", "r", "i", "g", "a", "n", ".", "h", "o", "u", "s", "e", ".", "g", "o", "v", "/", "m", "e", "d", "i", "a", "/", "p", "r", "e", "s", "s", "-", "r", "e", "l", "e", "a", "s", "e", "s">>,
      <<"h", "t", "t", "p", "s", ":", "/", "/", "k", "n", "o", "t", "t", ".", "h", "o", "u", "s", "e", ".", "g", "o", "v", "/", "m", "e", "d", "i", "a", "/", "p", "r", "e", "s", "s", "-", "r", "e", "l", "e", "a", "s", "e", "s">>,
      <<"h", "t", "t", "p", "s", ":", "/", "/", "t", "i", "m", "m", "o", "o", "r", "e", ".", "h", "o", "u", "s", "e", ".", "g", "o", "v", "/", "m", "e", "d", "i", "a", "/", "p", "r", "e", "s", "s", "-", "r", "e", "l", "e", "a", "s", "e", "s">>,
      <<"h", "t", "t", "p", "s", ":", "/", "/", "f", "e", "d", "o", "r", "c", "h", "a", "k", ".", "h", "o", "u", "s", "e", ".", "g", "o", "v", "/", "m", "e", "d", "i", "a", "/", "p", "r", "e", "s", "s", "-", "r", "e", "l", "e", "a", "s", "e", "s">>,
      <<"h", "t", "t", "p", "s", ":", "/", "/", "k", "i", "n", "g", "-", "h", "i", "n", "d", "s", ".", "h", "o", "u", "s", "e", ".", "g", "o", "v", "/", "m", "e", "d", "i", "a">>,
      <<"h", "t", "t", "p", "s", ":", "/", "/", "t", "a", "y", "l", "o", "r", ".", "h", "o", "u", "s", "e", ".", "g", "o", "v", "/", "m", "e", "d", "i", "a", "/", "p", "r", "e", "s", "s", "-", "r", "e", "l", "e", "a", "s", "e", "s">>,
      <<"h", "t", "t", "p", "s", ":", "/", "/", "d", "e", "x", "t", "e", "r", ".", "h", "o", "u", "s", "e", ".", "g", "o", "v", "/", "m", "e", "d", "i", "a", "/", "p", "r", "e", "s", "s", "-", "r", "e", "l", "e", "a", "s", "e", "s">>,
      <<"h", "t", "t", "p", "s", ":", "/", "/", "b", "y", "n", "u", "m", ".", "h", "o", "u", "s", "e", ".", "g", "o", "v", "/", "m", "e", "d", "i", "a", "/", "p", "r", "e", "s", "s", "-", "r", "e", "l", "e", "a", "s", "e", "s">>,
      <<"h", "t", "t", "p", "s", ":", "/", "/", "m", "a", "c", "k", "e", "n", "z", "i", "e", ".", "h", "o", "u", "s", "e", ".", "g", "o", "v", "/", "m", "e", "d", "i", "a", "/", "p", "r", "e", "s", "s", "-", "r", "e", "l", "e", "a", "s", "e", "s">>,
      <<"h", "t", "t", "p", "s", ":", "/", "/", "b", "r", "e", "s", "n", "a", "h", "a", "n", ".", "h", "o", "u", "s", "e", ".", "g", "o", "v", "/", "m", "e", "d", "i", "a">>,
      <<"h", "t", "t", "p", "s", ":", "/", "/", "h", "e", "r", "n", "a", "n", "d", "e", "z", ".", "h", "o", "u", "s", "e", ".", "g", "o", "v", "/", "m", "e", "d", "i", "a", "/", "p", "r", "e", "s", "s", "-", "r", "e", "l", "e", "a", "s", "e", "s">>,
      <<"h", "t", "t", "p", "s", ":", "/", "/", "s", "h", "e", "r", "i", "b", "i", "g", "g", "s", ".", "h", "o", "u", "s", "e", ".", "g", "o", "v", "/", "m", "e", "d", "i", "a", "/", "p", "r", "e", "s", "s", "-", "r", "e", "l", "e", "a", "s", "e", "s">>,
      <<"h", "t", "t", "p", "s", ":", "/", "/", "c", "r", "a", "i", "g", "g", "o", "l", "d", "m", "a", "n", ".", "h", "o", "u", "s", "e", ".", "g", "o", "v", "/", "m", "e", "d", "i", "a", "/", "p", "r", "e", "s", "s", "-", "r", "e", "l", "e", "a", "s", "e", "s">>,
      <<"h", "t", "t", "p", "s", ":", "/", "/", "s", "y", "l", "v", "e", "s", "t", "e", "r", "t", "u", "r", "n", "e", "r", ".", "h", "o", "u", "s", "e", ".", "g", "o", "v", "/", "m", "e", "d", "i", "a", "/", "p", "r", "e", "s", "s", "-", "r", "e", "l", "e", "a", "s", "e", "s">>,
      <<"h", "t", "t", "p", "s", ":", "/", "/", "g", "i", "l", "l", ".", "h", "o", "u", "s", "e", ".", "g", "o", "v", "/", "m", "e", "d", "i", "a", "/", "p", "r", "e", "s", "s", "-", "r", "e", "l", "e", "a", "s", "e", "s">>,
      <<"h", "t", "t", "p", "s", ":", "/", "/", "j", "u", "l", "i", "e", "j", "o", "h", "n", "s", "o", "n", ".", "h", "o", "u", "s", "e", ".", "g", "o", "v", "/", "m", "e", "d", "i", "a", "/", "p", "r", "e", "s", "s", "-", "r", "e", "l", "e", "a", "s", "e", "s">>,
      <<"h", "t", "t", "p", "s", ":", "/", "/", "m", "c", "g", "u", "i", "r", "e", ".", "h", "o", "u", "s", "e", ".", "g", "o", "v", "/", "m", "e", "d", "i", "a", "/", "p", "r", "e", "s", "s", "-", "r", "e", "l", "e", "a", "s", "e", "s">>,
      <<"h", "t", "t", "p", "s", ":", "/", "/", "v", "i", "n", "d", "m", "a", "n", ".", "h", "o", "u", "s", "e", ".", "g", "o", "v", "/", "m", "e", "d", "i", "a", "/", "p", "r", "e", "s", "s", "-", "r", "e", "l", "e", "a", "s", "e", "s">>,
      <<"h", "t", "t", "p", "s", ":", "/", "/", "s", "u", "b", "r", "a", "m", "a", "n", "y", "a", "m", ".", "h", "o", "u", "s", "e", ".", "g", "o", "v", "/", "m", "e", "d", "i", "a", "/", "p", "r", "e", "s", "s", "-", "r", "e", "l", "e", "a", "s", "e", "s">>,
      <<"h", "t", "t", "p", "s", ":", "/", "/", "b", "a", "u", "m", "g", "a", "r", "t", "n", "e", "r", ".", "h", "o", "u", "s", "e", ".", "g", "o", "v", "/", "m", "e", "d", "i", "a", "/", "p", "r", "e", "s", "s", "-", "r", "e", "l", "e", "a", "s", "e", "s">>,
      <<"h", "t", "t", "p", "s", ":", "/", "/", "r", "a", "n", "d", "a", "l", "l", ".", "h", "o", "u", "s", "e", ".", "g", "o", "v", "/", "m", "e", "d", "i", "a", "/", "p", "r", "e", "s", "s", "-", "r", "e", "l", "e", "a", "s", "e", "s">>,
      <<"h", "t", "t", "p", "s", ":", "/", "/", "r", "i", "l", "e", "y", "m", "o", "o", "r", "e", ".", "h", "o", "u", "s", "e", ".", "g", "o", "v", "/", "m", "e", "d", "i", "a", "/", "p", "r", "e", "s", "s", "-", "r", "e", "l", "e", "a", "s", "e", "s">>>>

\* Scraper.member_methods: "return [cls.aguilar, ...]", a list built anew by
\* every call; a method is written by its name.
member_methods ==
    <<"aguilar", "angusking", "article_block", "article_block_h2",
      "article_block_h2_date", "article_newsblocker", "article_span_published",
      "bacon", "baldwin", "barr", "barragan", "barrasso", "bennet", "bera",
      "bergman", "blackburn", "boozman", "britt", "brownley", "budd", "cantwell",
      "capito", "cardin", "carey", "carper", "casey", "cassidy", "castor", "clark",
      "clarke", "clyburn", "connolly", "coons", "cornyn", "cortezmasto", "cotton",
      "crapo", "crawford", "cruz", "daines", "document_query_new", "duckworth",
      "durbin", "elementor_post_date", "ellzey", "emmer", "ernst", "fetterman",
      "fischer", "foxx", "garypeters", "gillibrand", "gimenez", "gosar", "graham",
      "grassley", "griffith", "grijalva", "hagerty", "hassan", "hawley", "heinrich",
      "hirono", "hoeven", "houlahan", "house_title_header", "huizenga", "hydesmith",
      "jackreed", "jasonsmith", "jayapal", "jeffries", "jetlisting_h2", "joyce",
      "kaine", "kennedy", "lankford", "larsen", "lofgren", "lucas", "lujan",
      "lummis", "manchin", "markey", "markkelly", "marshall", "mast", "mcgovern",
      "media_body", "media_digest", "meeks", "menendez", "merkley", "mikelee",
      "mooney", "moran", "mullin", "murphy", "murray", "norcross", "ossoff",
      "padilla", "paul", "porter", "pressley", "react", "recordlist",
      "reschenthaler", "rickscott", "risch", "ronjohnson", "rosen", "rounds",
      "rubio", "scanlon", "schatz", "schumer", "schweikert", "senate_drupal",
      "senate_drupal_newscontent", "shaheen", "sherrod_brown", "stabenow", "steube",
      "sykes", "takano", "tester", "thune", "tillis", "timscott", "tinasmith",
      "titus", "tlaib", "toddyoung", "tokuda", "tonko", "trentkelly", "tuberville",
      "vance", "vanhollen", "warner", "welch", "whitehouse", "wicker", "wyden">>

MaxCalls == 2

\* What the sites do while the calls run: every request gets a page of one
\* release, or every request fails.
FrameWebs == {"frame_up", "frame_down"}

FrameInit ==
    /\ ex = "none"
    /\ web \in FrameWebs
    /\ urls = <<>>
    /\ page = 1
    /\ pc = "idle"
    /\ i = 1
    /\ domain = <<>>
    /\ source_url = <<>>
    /\ rows = <<>>
    /\ j = 1
    /\ results = <<>>
    /\ fetched = <<>>
    /\ response = NoResponse
    /\ legislator_info = None
    /\ scraper_func = None
    /\ caller_urls = <<URL_a, URL_q>>
    /\ observed = <<>>

\* The caller may make another call.
FrameIdle == pc = "idle" /\ Len(observed) < MaxCalls

\* The entry of a call of an extractor: "results = []", and for media_body
\* "if urls is None: urls = [...]".  Only media_body has a list of its own.
FrameCall ==
    /\ FrameIdle
    /\ \E method \in {"media_body", "table_recordlist_date"}, passed \in BOOLEAN :
         /\ method = "table_recordlist_date" => passed
         /\ ex' = method
         /\ urls' = IF passed THEN caller_urls ELSE media_body_default_urls
         /\ observed' = Append(observed,
                               [method |-> method, passed |-> passed,
                                list |-> IF passed THEN caller_urls
                                         ELSE media_body_default_urls])
    /\ results' = <<>>
    /\ fetched' = <<>>
    /\ i' = 1
    /\ pc' = "loop"
    /\ UNCHANGED <<page, web, domain, source_url, rows, j, response, legislator_info,
                   scraper_func, caller_urls>>

\* A return that would empty the list the call went through.
FrameReturn_clearing ==
    /\ pc = "loop"
    /\ i > Len(urls)
    /\ urls' = <<>>
    /\ caller_urls' = IF observed[Len(observed)].passed THEN <<>> ELSE caller_urls
    /\ results' = IF ex = "media_body" THEN remove_generic_urls(results) ELSE results
    /\ observed' = [observed EXCEPT ![Len(observed)].list = <<>>]
    /\ pc' = "idle"
    /\ UNCHANGED <<ex, page, web, i, domain, source_url, rows, j, fetched, response,
                   legislator_info, scraper_func>>

\* The url loop is exhausted: "return results", for media_body "return
\* Utils.remove_generic_urls(results)".  The call is observed with its list
\* as it leaves it.
FrameReturn ==
    /\ pc = "loop"
    /\ i > Len(urls)
    /\ results' = IF ex = "media_body" THEN remove_generic_urls(results) ELSE results
    /\ observed' = [observed EXCEPT ![Len(observed)].list = urls]
    /\ pc' = "idle"
    /\ UNCHANGED <<ex, urls, page, web, i, domain, source_url, rows, j, fetched, response,
                   legislator_info, scraper_func, caller_urls>>

\* A call of Scraper.member_methods.
FrameMemberMethods ==
    /\ FrameIdle
    /\ observed' = Append(observed,
                          [method |-> "member_methods", passed |-> FALSE,
                           list |-> member_methods])
    /\ UNCHANGED <<ex, urls, page, web, pc, i, domain, source_url, rows, j, results,
                   fetched, response, legislator_info, scraper_func, caller_urls>>

FrameNext ==
    \/ FrameCall
    \/ FetchOk
    \/ FetchNone
    \/ RowAppend
    \/ EndRows
    \/ FrameReturn
    \/ FrameMemberMethods

FrameSpec == FrameInit /\ [][FrameNext]_vars

(***************************************************************************)
(* What the pages hold, read off the containers the sites serve.           *)
(***************************************************************************)

\* The container holds an anchor element.
HasLink(row) == \E k \in 1..Len(row.els) : row.els[k].tag = "a"

\* The container's anchor carries an href attribute.
HasHref(row) == \E k \in 1..Len(row.els) : row.els[k].tag = "a" /\ row.els[k].href # None

\* el is an element the extractor e reads the date from.
IsDateElOf(e, el) ==
    \/ /\ el.tag = DateEl(e, <<>>).tag
       /\ el.class = DateEl(e, <<>>).class
    \/ /\ e \in {"article_block_h2_p_date", "table_time"}
       /\ el.tag = "time"

HasDateEl(e, row) == \E k \in 1..Len(row.els) : IsDateElOf(e, row.els[k])

\* The container holds the title element element_post_media asks for.
HasTitleEl(row) == \E k \in 1..Len(row.els) : row.els[k].class = "post-media-list-title"

\* The container's date element carries a text that is no date in any format.
HasJunkDate(e, row) ==
    \E k \in 1..Len(row.els) :
        /\ IsDateElOf(e, row.els[k])
        /\ IF row.els[k].tag = "time" /\ Truthy(row.els[k].datetime)
           THEN row.els[k].datetime \in JunkTexts
           ELSE row.els[k].text \in JunkTexts

\* A pass of the row loop is about to run.
AtRow == pc = "rows" /\ j <= Len(rows)

\* The pass that runs skips the container: nothing is appended and the loop
\* moves to the next container.
Skipped == results' = results /\ j' = j + 1 /\ pc' = "rows"

\* The pass that runs emits a record for the container.
Emitted == Len(results') = Len(results) + 1 /\ j' = j + 1 /\ pc' = "rows"

(***************************************************************************)
(* C1: a container without a link element produces no record and does not *)
(* end the scan of the page: the pass over it leaves the results as they  *)
(* are and the loop goes on to the next container of the same page.        *)
(***************************************************************************)
C1_LinklessContainerSkipped ==
    [][(AtRow /\ ~HasLink(rows[j])) => Skipped]_vars

\* A link-less first container was passed and the second container of the
\* page has produced a record.
C1_Witness ==
    /\ pc = "rows"
    /\ j = 3
    /\ ~HasLink(rows[1])
    /\ HasLink(rows[2])
    /\ Len(results) = 1
    /\ results[1].title = TITLE

(***************************************************************************)
(* C2, as stated: a container that has a link always produces a record,    *)
(* whether or not it has a date element (read here for the containers      *)
(* whose link carries an href and, in element_post_media, that have a      *)
(* title element).                                                         *)
(***************************************************************************)
C2_LinkedContainerAlwaysEmits ==
    [][(/\ AtRow
        /\ HasLink(rows[j])
        /\ HasHref(rows[j])
        /\ ex = "element_post_media" => HasTitleEl(rows[j]))
        => Emitted]_vars

\* The extractors that ask for the date element before they emit.
RequireDateEl == {"table_recordlist_date", "element_post_media", "media_body"}

(***************************************************************************)
(* C2, amended: a container that has a link is skipped exactly when the    *)
(* extractor is table_recordlist_date, element_post_media or media_body and*)
(* the container lacks the date element (for element_post_media also when  *)
(* it lacks the title element); jet_listing_elementor,                     *)
(* article_block_h2_p_date and table_time never skip it. A date text that  *)
(* matches no format never causes a skip, and every record emitted for a   *)
(* container whose date element is missing or whose date text matches no   *)
(* format has date None.                                                   *)
(***************************************************************************)
C2_LinkedContainerEmitsUnlessUndated ==
    [][(AtRow /\ HasLink(rows[j])) =>
        /\ Skipped <=>
             /\ ex \in RequireDateEl
             /\ \/ ~HasDateEl(ex, rows[j])
                \/ ex = "element_post_media" /\ ~HasTitleEl(rows[j])
        /\ (Emitted /\ (~HasDateEl(ex, rows[j]) \/ HasJunkDate(ex, rows[j])))
             => results'[Len(results')].date = None]_vars

\* Both cases have happened on one page: a record with date None for a linked
\* container without date element, and one for a linked container whose date
\* text is no date.
C2_Witness ==
    /\ pc = "rows"
    /\ j = 3
    /\ HasLink(rows[1]) /\ ~HasDateEl(ex, rows[1])
    /\ HasLink(rows[2]) /\ HasJunkDate(ex, rows[2])
    /\ Len(results) = 2
    /\ results[1].date = None
    /\ results[2].date = None

(***************************************************************************)
(* C3: every call of an extractor returns a list and never raises,         *)
(* whatever the fetched documents contain.                                 *)
(***************************************************************************)
C3_NeverRaises == pc # "raised"

(***************************************************************************)
(* C4: a url whose fetch fails contributes no record, the failure raises   *)
(* nothing, and the call goes on to the remaining urls: every record comes *)
(* from a url whose fetch returned a document, a call that has returned    *)
(* has fetched every url, and it returns the empty list when every fetch   *)
(* failed.                                                                 *)
(***************************************************************************)
C4_FailedFetchContributesNothing ==
    /\ \A k \in 1..Len(results) :
          \E n \in 1..Len(fetched) : fetched[n].ok /\ urls[n] = results[k].source
    /\ pc = "raised" => fetched[Len(fetched)].ok
    /\ pc = "done" => Len(fetched) = Len(urls)
    /\ (pc = "done" /\ \A n \in 1..Len(fetched) : ~fetched[n].ok) => results = <<>>

\* The first of two fetches failed, the second gave a page with records, and
\* the call returned the records of the second url alone.
C4_Witness ==
    /\ pc = "done"
    /\ Len(urls) = 2
    /\ urls[1] # urls[2]
    /\ ~fetched[1].ok
    /\ fetched[2].ok
    /\ results # <<>>
    /\ \A k \in 1..Len(results) : results[k].source = urls[2]

\* The rows of a table that table_recordlist_date turns into records.
HasLinkAndDateCell(row) == HasLink(row) /\ HasDateEl("table_recordlist_date", row)

\* The href of the container's anchor.
HrefOf(row) == row.els[CHOOSE k \in 1..Len(row.els) : row.els[k].tag = "a"].href

\* The record rec was made from the container row.
MadeFrom(rec, row) ==
    /\ HasLink(row)
    /\ rec.title = TITLE
    /\ \/ rec.url = HrefOf(row)
       \/ rec.url = S_https_ \o rec.domain \o HrefOf(row)

(***************************************************************************)
(* C5: for one page, table_recordlist_date makes exactly one record per    *)
(* row that has both a link and a td.recordListDate cell, in document      *)
(* order, and drops every other row silently; the three-row scenario ends  *)
(* with exactly 2 records, both dated 2024-01-15.                          *)
(***************************************************************************)
C5_OneRecordPerCompleteRow ==
    (ex = "table_recordlist_date" /\ Len(urls) = 1) =>
        /\ pc # "raised"
        /\ pc = "rows" =>
             LET seen == SelectSeq(SubSeq(rows, 1, j - 1), HasLinkAndDateCell)
             IN  /\ Len(results) = Len(seen)
                 /\ \A n \in 1..Len(seen) : MadeFrom(results[n], seen[n])
        /\ (pc = "done" /\ rows = PAGE_three_rows(ex)) =>
             /\ Len(results) = 2
             /\ \A n \in 1..2 : results[n].date = <<2024, 1, 15>>

\* The format writes the year with two digits.
HasTwoDigitYear(f) == \E k \in 1..Len(f) : f[k] = "%y"

\* The years a two-digit year can name (1969..2068).
InWindow(d) == d[1] >= 1969 /\ d[1] <= 2068

\* The first container of a fetched page of dated containers was passed.
DatedRowPassed == web = "dates" /\ pc = "rows" /\ j = 2

\* The container passed carried, as the text of its date element, the date d
\* written in the format f.
WrittenAs(d, f) == rows[1] = MkRow(ex, <<HREF_abs>>, <<strftime(d, f)>>)

\* The container passed carried the text t in the datetime attribute of its
\* time element.
InDatetimeAttr(t) == rows[1] = MkTimeRow(ex, HREF_abs, t, TEXT_wrong)

\* The record of the container passed has the date d.
ResolvedTo(d) == Len(results) = 1 /\ results[1].date = d

(***************************************************************************)
(* C6, as stated: for every format of the extractor's ladder and every     *)
(* calendar date d, the text of d in that format resolves to d, formats    *)
(* with a two-digit year included.                                         *)
(***************************************************************************)
C6_RoundTripEveryDate ==
    DatedRowPassed =>
        \A d \in SampleDates : \A k \in 1..Len(DateFormats(ex)) :
            WrittenAs(d, DateFormats(ex)[k]) => ResolvedTo(d)

(***************************************************************************)
(* C6, amended: for every format of the extractor's ladder and every       *)
(* calendar date d with a four-digit year, where d lies in 1969..2068 when *)
(* the format writes the year with two digits, the text of d in that       *)
(* format resolves to d; a text that matches no format resolves to None,   *)
(* and resolving a date text never raises.                                 *)
(***************************************************************************)
C6_RoundTripWithinWindow ==
    /\ web = "dates" => pc # "raised"
    /\ DatedRowPassed =>
        /\ \A d \in SampleDates : \A k \in 1..Len(DateFormats(ex)) :
             (/\ WrittenAs(d, DateFormats(ex)[k])
              /\ HasTwoDigitYear(DateFormats(ex)[k]) => InWindow(d))
             => ResolvedTo(d)
        /\ HasJunkDate(ex, rows[1]) => ResolvedTo(None)

\* A date of the 1900s written with a two-digit year came back as itself.
C6_Witness ==
    /\ DatedRowPassed
    /\ WrittenAs(<<1999, 12, 31>>, FMT_mdy_slash)
    /\ ResolvedTo(<<1999, 12, 31>>)

\* The forms every generic extractor reads, and the period-delimited forms.
CommonForms == {FMT_mdy_slash, FMT_mdY_slash, FMT_BdY}
PeriodForms == {FMT_mdy_dot, FMT_mdY_dot}

\* The forms of the date d the extractor ex is said to resolve to d.
ResolvesForms(d, forms) ==
    /\ ex \in GenericExtractors =>
         \A f \in CommonForms : (f \in forms /\ WrittenAs(d, f)) => ResolvedTo(d)
    /\ ex \in {"table_recordlist_date", "article_block_h2_p_date"} =>
         \A f \in PeriodForms : (f \in forms /\ WrittenAs(d, f)) => ResolvedTo(d)
    /\ ex \in {"article_block_h2_p_date", "table_time"} =>
         (InDatetimeAttr(strftime(d, FMT_Ymd)) => ResolvedTo(d))

(***************************************************************************)
(* C7, as stated: every generic extractor resolves the two-digit-year      *)
(* slash form, the four-digit-year slash form and the long month-name form *)
(* of any one calendar date to that date (and its ISO form read from a     *)
(* datetime attribute); table_recordlist_date and article_block_h2_p_date  *)
(* also the period-delimited forms.                                        *)
(***************************************************************************)
C7_SameDateFromEveryForm ==
    DatedRowPassed =>
        \A d \in SampleDates : ResolvesForms(d, CommonForms \cup PeriodForms)

(***************************************************************************)
(* C7, amended: the same, where the two-digit-year forms are those of a    *)
(* date in 1969..2068; the four-digit-year slash form, the long month-name *)
(* form, the four-digit period form and the ISO form of a datetime         *)
(* attribute resolve to the date for every four-digit year.                *)
(***************************************************************************)
C7_SameDateFromEveryFormWithinWindow ==
    DatedRowPassed =>
        \A d \in SampleDates :
            ResolvesForms(d, IF InWindow(d) THEN CommonForms \cup PeriodForms
                             ELSE {FMT_mdY_slash, FMT_BdY, FMT_mdY_dot})

\* article_block_h2_p_date read 01.15.24 as 2024-01-15.
C7_Witness ==
    /\ DatedRowPassed
    /\ ex = "article_block_h2_p_date"
    /\ WrittenAs(<<2024, 1, 15>>, FMT_mdy_dot)
    /\ ResolvedTo(<<2024, 1, 15>>)

\* The candidate link begins with a scheme.
BeginsWithScheme(href) == urlparse(href).scheme # <<>>

\* The origin of a page: its scheme and its host.
Origin(url) == urlparse(url).scheme \o <<":", "/", "/">> \o urlparse(url).netloc

(***************************************************************************)
(* C8: the url of a record made from a link equals the link's href when    *)
(* the href begins with a scheme, and otherwise equals the origin (scheme  *)
(* and host) of the page it was found on followed by the href.             *)
(***************************************************************************)
C8_UrlResolvedAgainstOrigin ==
    [][(AtRow /\ HasHref(rows[j]) /\ Emitted) =>
        results'[Len(results')].url =
            IF BeginsWithScheme(HrefOf(rows[j])) THEN HrefOf(rows[j])
            ELSE Origin(urls[i]) \o HrefOf(rows[j])]_vars

\* A url with a scheme and a host.
IsAbsolute(url) ==
    /\ url # None
    /\ urlparse(url).scheme # <<>>
    /\ urlparse(url).netloc # <<>>

(***************************************************************************)
(* C9: the url of every record an extractor has made is an absolute URL.   *)
(***************************************************************************)
C9_UrlAlwaysAbsolute ==
    \A k \in 1..Len(results) : IsAbsolute(results[k].url)

(***************************************************************************)
(* C10: the list a call returns holds no record whose url has the path     *)
(* /news or /news/: what is returned is what remove_generic_urls leaves of *)
(* the records made, in their order.                                       *)
(***************************************************************************)
C10_NoGenericUrlReturned ==
    pc = "done" => results = remove_generic_urls(results)

\* The request got a response with a success status and a body that one of
\* the two parsers takes.
RequestSucceeded ==
    /\ response.error = ""
    /\ response.status < 400
    /\ response.lxml.ok \/ response.html_parser.ok

\* The last call of open_html.
LastFetch == fetched[Len(fetched)]

(***************************************************************************)
(* C20: open_html returns a parsed document or None for every outcome of   *)
(* the request and never raises: it returns the document of the first      *)
(* parser that takes the body when the request got a success status, and   *)
(* None on a transport error, a timeout, a 4xx or 5xx status or a body no  *)
(* parser takes; after a None the call is still running or has returned.   *)
(***************************************************************************)
C20_OpenHtmlDocumentOrNone ==
    (ex \in Extractors /\ Len(fetched) > 0) =>
        /\ LastFetch.ok <=> RequestSucceeded
        /\ ~LastFetch.ok => pc \in {"loop", "done"}
        /\ (LastFetch.ok /\ pc = "rows") =>
             rows = Rows(ex, IF response.lxml.ok THEN response.lxml.doc
                             ELSE response.html_parser.doc)

\* A response with status 500 and a body both parsers take came back as None,
\* and the call returned the empty list.
C20_Witness ==
    /\ ex \in Extractors
    /\ pc = "done"
    /\ response.status = 500
    /\ response.lxml.ok
    /\ ~fetched[1].ok
    /\ results = <<>>

\* The page markers: page=, PageNum_rs=, pagenum= and /pagenum/, each
\* followed by the page number.
KEY_page         == <<"p", "a", "g", "e", "=">>
KEY_PageNum_rs   == <<"P", "a", "g", "e", "N", "u", "m", "_", "r", "s", "=">>
KEY_pagenum      == <<"p", "a", "g", "e", "n", "u", "m", "=">>
KEY_pagenum_path == <<"/", "p", "a", "g", "e", "n", "u", "m", "/">>

MarkerKeysOf(e) ==
    CASE e = "jet_listing_elementor"   -> {KEY_pagenum, KEY_pagenum_path}
      [] e = "article_block_h2_p_date" -> {KEY_PageNum_rs}
      [] OTHER                         -> {KEY_page}

AllMarkerKeys == {KEY_page, KEY_PageNum_rs, KEY_pagenum, KEY_pagenum_path}

\* The places of the string s where a marker with one of the keys stands.
MarkersIn(s, keys) ==
    {m \in (1..Len(s)) \X keys :
        /\ HasAt(s, m[1], m[2])
        /\ m[1] + Len(m[2]) <= Len(s)
        /\ s[m[1] + Len(m[2])] \in Digits}

\* The marker at m of s has the value n.
MarkerHasValue(s, m, n) ==
    /\ HasAt(s, m[1] + Len(m[2]), str(n))
    /\ m[1] + Len(m[2]) + Len(str(n)) <= Len(s)
         => s[m[1] + Len(m[2]) + Len(str(n))] \notin Digits

\* s holds exactly one page marker of the extractor e, and its value is n.
OneMarkerWithValue(e, s, n) ==
    /\ Cardinality(MarkersIn(s, MarkerKeysOf(e))) = 1
    /\ \A m \in MarkersIn(s, MarkerKeysOf(e)) : MarkerHasValue(s, m, n)

\* s holds the key of a page marker, with or without a value behind it.
HoldsMarkerKey(s) == \E key \in AllMarkerKeys : Contains(s, key)

C12_ExistingMarkerReplaced ==
    \A n \in 1..Len(fetched) :
        MarkersIn(urls[n], MarkerKeysOf(ex)) # {} =>
            OneMarkerWithValue(ex, fetched[n].url, page)

(***************************************************************************)
(* C13: the source of every record is the request url that was fetched to  *)
(* produce it: the base url with the page marker applied.                  *)
(***************************************************************************)
C13_SourceIsFetchedUrl ==
    \A k \in 1..Len(results) :
        \E n \in 1..Len(fetched) : fetched[n].ok /\ results[k].source = fetched[n].url

(***************************************************************************)
(* C15: when the time element of a row carries a datetime attribute that   *)
(* holds the ISO form of a calendar date, table_time gives the record that *)
(* date, whether the element's display text is no date or another date.    *)
(***************************************************************************)
C15_DatetimeAttributePreferred ==
    (ex = "table_time" /\ DatedRowPassed) =>
        \A d \in SampleDates : \A text \in {TEXT_wrong, TEXT_good} :
            rows[1] = MkTimeRow(ex, HREF_abs, strftime(d, FMT_Ymd), text)
                => ResolvedTo(d)

\* A time element showing 01/15/24 with datetime="1999-12-31" gave 1999-12-31.
C15_Witness ==
    /\ ex = "table_time"
    /\ DatedRowPassed
    /\ rows[1] = MkTimeRow(ex, HREF_abs, strftime(<<1999, 12, 31>>, FMT_Ymd), TEXT_good)
    /\ ResolvedTo(<<1999, 12, 31>>)

\* The document the last call of open_html returned.
ReturnedDoc ==
    IF response.lxml.ok THEN response.lxml.doc ELSE response.html_parser.doc

(***************************************************************************)
(* C16: for one page, table_time returns one record for every table row    *)
(* that holds a link, also when the table has no header row: the table of  *)
(* one row with a link and a time element gives exactly one record.        *)
(***************************************************************************)
C16_OneRecordPerLinkedRow ==
    (ex = "table_time" /\ pc = "done" /\ Len(urls) = 1 /\ LastFetch.ok) =>
        /\ Len(results) = Len(SelectSeq(ReturnedDoc, HasLink))
        /\ ReturnedDoc = PAGE_no_header(ex) => Len(results) = 1

(***************************************************************************)
(* C17: in one call over k urls with page N, open_html is called exactly k *)
(* times: once per url, in list order, whether or not an earlier fetch     *)
(* failed, never twice for one url, and each time for page N and no other  *)
(* page.                                                                   *)
(***************************************************************************)
C17_OneFetchPerUrlForPageN ==
    ex \in Extractors =>
        /\ Len(fetched) <= Len(urls)
        /\ pc = "done" => Len(fetched) = Len(urls)
        /\ \A n \in 1..Len(fetched) :
             /\ fetched[n].url = SourceUrl(ex, urls[n], page)
             /\ OneMarkerWithValue(ex, fetched[n].url, page)


\* The payload a text carries is malformed: json.loads rejects it, or the
\* path to the posts cannot be followed in it, or what it reaches is no list.
MalformedText(text) ==
    \/ ~text.json
    \/ subscript(text.value, PostsPath).exc # ""
    \/ subscript(text.value, PostsPath).val.t # "list"

\* A fetched press page with a payload element whose payload is malformed.
MalformedPage(resp) ==
    /\ ~open_html(resp).none
    /\ NextDataOf(resp) # NoScript
    /\ MalformedText(NextDataOf(resp).text)

(***************************************************************************)
(* C19: a press page of react whose embedded payload is malformed (not     *)
(* JSON, a missing key, a too-short list, a null or wrongly typed value on *)
(* the path to the posts) adds no record, does not raise, and the domain   *)
(* loop goes on with the records of the other domains kept.                *)
(***************************************************************************)
C19_MalformedPayloadSkipped ==
    [][(AtDomain /\ MalformedPage(response')) =>
           (pc' = "loop" /\ i' = i + 1 /\ results' = results)]_vars

RecordFields == {"source", "url", "title", "date", "domain"}

\* A calendar date: year, month and day of a day that exists.
IsCalendarDate(d) ==
    /\ Len(d) = 3
    /\ d[2] \in 1..12
    /\ d[3] \in 1..DaysInMonth(d[1], d[2])

(***************************************************************************)
(* C14: every record an extractor returns has exactly the five fields      *)
(* source, url, title, date, domain; its title is a text (possibly empty)  *)
(* without leading or trailing whitespace; its date is a calendar date or  *)
(* None.                                                                   *)
(***************************************************************************)
C14_RecordShape ==
    \A n \in 1..Len(results) :
        /\ DOMAIN results[n] = RecordFields
        /\ results[n].title # None
        /\ Strip(results[n].title) = results[n].title
        /\ results[n].date # None => IsCalendarDate(results[n].date)

\* The last names with a scraper for every first name.
RegisteredLastNames ==
    {N_crapo, N_shaheen, N_bera, N_meeks, N_steube, N_barragan, N_castor,
     N_marshall, N_hawley, N_barrasso, N_sykes}

\* The legislator has no registered scraper: the last name is in no entry of
\* the registry, or it is 'scott' or 'king' with another first name than
\* the entry's.
Unregistered(info) ==
    /\ Lower(info.last_name) \notin RegisteredLastNames
    /\ ~(Lower(info.last_name) = N_scott /\ Lower(info.first_name) = N_tim)
    /\ ~(Lower(info.last_name) = N_king /\ Lower(info.first_name) = N_angus)

(***************************************************************************)
(* C18: scrape_with_known_scrapers, called for a legislator without a      *)
(* registered scraper, returns the empty list, requests no page and runs   *)
(* no scraper: 'scott' with a first name other than 'tim' runs none.       *)
(***************************************************************************)
C18_UnregisteredRunsNothing ==
    (ex = "scrape_with_known_scrapers" /\ pc = "done" /\ Unregistered(legislator_info)) =>
        /\ results = <<>>
        /\ fetched = <<>>
        /\ scraper_func = None

\* 'Scott', first name 'Rick': the call has returned, empty, without a fetch.
C18_Witness ==
    /\ ex = "scrape_with_known_scrapers"
    /\ pc = "done"
    /\ legislator_info = [last_name |-> N_Scott, first_name |-> N_Rick]
    /\ results = <<>>
    /\ fetched = <<>>

\* The places of a /pagenum/M segment in s.
PagenumSegments(s) == MarkersIn(s, {KEY_pagenum_path})

\* The page marker jet_listing_elementor writes as a path segment and as a
\* query.
PagenumSegment(n) == KEY_pagenum_path \o str(n) \o <<"/">>
JsfQuery(n) ==
    <<"j", "s", "f", "=", "j", "e", "t", "-", "e", "n", "g", "i", "n", "e", ":",
      "p", "r", "e", "s", "s", "-", "l", "i", "s", "t", "&">> \o KEY_pagenum \o str(n)

(***************************************************************************)
(* C24: jet_listing_elementor fetches, for every url shape, a url that     *)
(* names page N: a url with a /pagenum/M segment (with or without a slash  *)
(* behind M) is fetched with /pagenum/N/ as its only such segment; a url   *)
(* with a /jsf/ path and no such segment gets /pagenum/N/ appended; a url  *)
(* with neither and no jsf query marker gets                               *)
(* jsf=jet-engine:press-list&pagenum=N appended after '?' or '&'.          *)
(***************************************************************************)
C24_JetPaginationByUrlShape ==
    ex = "jet_listing_elementor" =>
        \A n \in 1..Len(fetched) :
            /\ \E m \in MarkersIn(fetched[n].url, MarkerKeysOf(ex)) :
                   MarkerHasValue(fetched[n].url, m, page)
            /\ PagenumSegments(urls[n]) # {} =>
                 /\ Contains(fetched[n].url, PagenumSegment(page))
                 /\ Cardinality(PagenumSegments(fetched[n].url)) = 1
            /\ (PagenumSegments(urls[n]) = {} /\ Contains(urls[n], <<"/", "j", "s", "f", "/">>)) =>
                 fetched[n].url = urls[n] \o PagenumSegment(page)
            /\ (PagenumSegments(urls[n]) = {} /\ ~Contains(urls[n], <<"j", "s", "f">>)) =>
                 fetched[n].url =
                     urls[n] \o (IF Contains(urls[n], <<"?">>) THEN <<"&">> ELSE <<"?">>)
                             \o JsfQuery(page)

\* The value of the first marker with the key in s: the digits behind it.
ValueOfMarker(s, key) ==
    LET k == MinOf({n \in 1..Len(s) : HasAt(s, n, key)})
    IN  SubSeq(s, k + Len(key),
               FindFirst(s, {s[n] : n \in 1..Len(s)} \ Digits, k + Len(key)) - 1)

(***************************************************************************)
(* C25: for a base url that holds a PageNum_rs marker,                     *)
(* article_block_h2_p_date fetches the url unchanged only when the         *)
(* marker's value is exactly N; for every other value (one whose digits    *)
(* begin with those of N, or the empty value) the url fetched carries      *)
(* PageNum_rs=N.                                                           *)
(***************************************************************************)
C25_PageNumRsReplacedUnlessEqual ==
    ex = "article_block_h2_p_date" =>
        \A n \in 1..Len(fetched) :
            Contains(urls[n], KEY_PageNum_rs) =>
                /\ fetched[n].url = urls[n] => ValueOfMarker(urls[n], KEY_PageNum_rs) = str(page)
                /\ ValueOfMarker(fetched[n].url, KEY_PageNum_rs) = str(page)

\* The containers of the two selectors of jet_listing_elementor.
IsJetItem(c)    == c.class = "jet-listing-grid__item"
IsWidgetWrap(c) == c.class = "elementor-widget-wrap"

\* The row holds a link under a heading of the kind h ("h2", "h3"), and the
\* href of the first such link.
HasLinkUnder(row, h) ==
    \E k \in 1..Len(row.els) : row.els[k].tag = "a" /\ h \in row.els[k].anc

HrefUnder(row, h) ==
    row.els[MinOf({k \in 1..Len(row.els) : row.els[k].tag = "a" /\ h \in row.els[k].anc})].href

(***************************************************************************)
(* C22: a later selector of a fallback chain is consulted only when every  *)
(* earlier one matched nothing, and matches are never merged:              *)
(* jet_listing_elementor scans the .jet-listing-grid__item containers      *)
(* alone when the page has any and the .elementor-widget-wrap containers   *)
(* only when it has none; article_block_h2_p_date takes the link under the *)
(* h2 when the block has one and the link under the h3 only when it has no *)
(* link under an h2.                                                       *)
(***************************************************************************)
C22_FirstSelectorWins ==
    /\ (ex = "jet_listing_elementor" /\ pc = "rows") =>
           rows = IF \E k \in 1..Len(ReturnedDoc) : IsJetItem(ReturnedDoc[k])
                  THEN SelectSeq(ReturnedDoc, IsJetItem)
                  ELSE SelectSeq(ReturnedDoc, IsWidgetWrap)
    /\ (ex = "article_block_h2_p_date" /\ pc = "rows" /\ i = 1 /\ j = 2) =>
           /\ HasLinkUnder(rows[1], "h2") =>
                Len(results) = 1 /\ results[1].url = HrefUnder(rows[1], "h2")
           /\ (~HasLinkUnder(rows[1], "h2") /\ HasLinkUnder(rows[1], "h3")) =>
                Len(results) = 1 /\ results[1].url = HrefUnder(rows[1], "h3")

\* A page with a widget-wrap container before a grid item gave the grid
\* item's record alone.
C22_Witness ==
    /\ ex = "jet_listing_elementor"
    /\ pc = "rows"
    /\ ReturnedDoc = <<ROW_widget_wrap(HREF_abs), ROW_jet_item(HREF_rel)>>
    /\ rows = <<ROW_jet_item(HREF_rel)>>
    /\ j = 2
    /\ Len(results) = 1
    /\ results[1].url = HREF_rel

(***************************************************************************)
(* C23: for an ArticleBlock that holds a <p> and a <time>, in either       *)
(* order, article_block_h2_p_date takes the date from the text of the <p>  *)
(* alone: the date the text names, or None when it names none, whatever    *)
(* the <time> and its datetime attribute hold; the <time> gives the date   *)
(* only when the block has no <p>.                                         *)
(***************************************************************************)
C23_ParagraphDecidesBeforeTime ==
    (ex = "article_block_h2_p_date" /\ DatedRowPassed) =>
        /\ rows[1] \in {MkPTimeRow(ex, TEXT_good, ATTR_1999, TEXT_1999),
                        MkTimePRow(ex, TEXT_good, ATTR_1999, TEXT_1999)}
             => ResolvedTo(<<2024, 1, 15>>)
        /\ rows[1] \in {MkPTimeRow(ex, TEXT_wrong, ATTR_1999, TEXT_1999),
                        MkTimePRow(ex, TEXT_wrong, ATTR_1999, TEXT_1999)}
             => ResolvedTo(None)
        /\ rows[1] = MkTimeRow(ex, HREF_abs, ATTR_1999, TEXT_good)
             => ResolvedTo(<<1999, 12, 31>>)

\* A block whose <p> names no date, before a <time> that names one, gave a
\* record without date.
C23_Witness ==
    /\ ex = "article_block_h2_p_date"
    /\ DatedRowPassed
    /\ rows[1] = MkPTimeRow(ex, TEXT_wrong, ATTR_1999, TEXT_1999)
    /\ ResolvedTo(None)

(***************************************************************************)
(* C29: in table_time and article_block_h2_p_date, a time element with a   *)
(* non-empty datetime attribute gives the date of the attribute alone: the *)
(* date it names in ISO form, and None when it matches no format (an ISO   *)
(* timestamp with a time part), also when the display text is a date.      *)
(***************************************************************************)
C29_DatetimeAttributeAloneDecides ==
    (ex \in {"table_time", "article_block_h2_p_date"} /\ DatedRowPassed) =>
        /\ \A t \in JunkTexts \ {TEXT_empty} :
             rows[1] = MkTimeRow(ex, HREF_abs, t, TEXT_good) => ResolvedTo(None)
        /\ \A d \in SampleDates :
             rows[1] = MkTimeRow(ex, HREF_abs, strftime(d, FMT_Ymd), TEXT_good)
                 => ResolvedTo(d)

\* datetime="2024-01-15T10:00" next to the display text 01/15/24 gave a
\* record without date.
C29_Witness ==
    /\ ex = "article_block_h2_p_date"
    /\ DatedRowPassed
    /\ rows[1] = MkTimeRow(ex, HREF_abs, TEXT_isotime, TEXT_good)
    /\ ResolvedTo(None)

\* The index in urls of the k-th fetch that returned a document.
OkFetch(k) ==
    CHOOSE n \in 1..Len(fetched) :
        /\ fetched[n].ok
        /\ Cardinality({m \in 1..n : fetched[m].ok}) = k

(***************************************************************************)
(* C28: the result of a call is the concatenation, in the order of the url *)
(* list, of the records of each url in document order. Every step leaves   *)
(* the results as they are or adds one record at their end, made in the    *)
(* pass over the current container of the current url, and the urls and    *)
(* the containers are passed in order; nothing is dropped as a duplicate:  *)
(* when every page holds one release, the call returns one record per url  *)
(* that was fetched, a url listed twice giving its record twice.           *)
(***************************************************************************)
C28_ConcatenationInUrlOrder ==
    /\ [][/\ i' \in {i, i + 1}
          /\ (pc = "rows" /\ pc' = "rows") => (i' = i /\ j' = j + 1)
          /\ results' # results =>
               /\ AtRow
               /\ results' = Append(results, results'[Len(results')])
               /\ results'[Len(results')].source = urls[i]]_vars
    /\ []((web = "lists" /\ pc = "done") =>
             /\ Len(results) = Cardinality({n \in 1..Len(fetched) : fetched[n].ok})
             /\ \A k \in 1..Len(results) : results[k].source = urls[OkFetch(k)])

\* The same url listed twice, serving the same page twice, gave the same
\* record twice.
C28_Witness ==
    /\ web = "lists"
    /\ pc = "done"
    /\ urls = <<URL_a, URL_a>>
    /\ Len(results) = 2
    /\ results[1] = results[2]
\* The records appended so far in the pass over the current listing URL.
RecordsOfListing == {n \in 1..Len(results) : results[n].source \in {urls[i], source_url}}

\* The host of an absolute URL.
HostOf(u) == urlparse(u).netloc

\* The listing URL under the row loop and the URLs before it are distinct
\* from it, so that RecordsOfListing holds this pass's records only.
FirstPassOver == \A n \in 1..(i - 1) : urls[n] # urls[i]

\* C30: every record senate_drupal produces from one listing URL carries the
\* same domain and a url on the same host, first row and later rows alike:
\* the host of the listing, except that the republicanleader listing gives
\* domain mcconnell.senate.gov with a url on www.republicanleader.senate.gov;
\* a rewritten domain does not carry over to the records of the next URL.
C30_OneDomainPerListing ==
    (ex = "senate_drupal" /\ pc = "rows" /\ FirstPassOver) =>
        \A n \in RecordsOfListing :
            /\ HostOf(results[n].url) = HostOf(urls[i])
            /\ results[n].domain =
                 (IF urls[i] = URL_republicanleader THEN D_mcconnell ELSE HostOf(urls[i]))

\* Two records of the republicanleader listing followed by two records of
\* another listing.
C30_Witness ==
    /\ ex = "senate_drupal"
    /\ pc = "rows"
    /\ Len(urls) >= 2
    /\ i = 2
    /\ urls[1] = URL_republicanleader
    /\ urls[2] = URL_hoeven
    /\ Len(results) = 4
    /\ results[2].domain = D_mcconnell
    /\ HostOf(results[2].url) = D_republicanleader
    /\ results[4].domain = HostOf(URL_hoeven)
\* The h2 the row loop is about to handle holds a link.
AtLinkedRow == pc = "rows" /\ j <= Len(rows) /\ DrupalDoc[rows[j]].link

\* The formats the extractor under way accepts for the listing under way.
DrupalFormats ==
    IF ex = "senate_drupal_newscontent" THEN <<FMT_mdy_dot, FMT_BdY>>
    ELSE IF senate_drupal_branch(urls[i], domain) = "BdY" THEN <<FMT_BdY>>
    ELSE IF senate_drupal_branch(urls[i], domain) = "republicanleader" THEN <<FMT_mdy_slash>>
    ELSE <<FMT_mdy_dot>>

\* The text of the node two positions before the h2 under the row loop, as
\* the formats are tried on it (the republicanleader listing writes its
\* dates with dots and has them read with slashes).
TextTwoBefore ==
    IF ex = "senate_drupal" /\ senate_drupal_branch(urls[i], domain) = "republicanleader"
    THEN Replace(DrupalDoc[rows[j] - 2].text, ".", "/")
    ELSE DrupalDoc[rows[j] - 2].text

\* The h2 under the row loop has fewer than two siblings before it.
FewerThanTwoBefore == rows[j] <= 2

\* The node two positions before the h2 holds a text that matches no format.
NoFormatMatches ==
    /\ rows[j] > 2
    /\ first_format(TextTwoBefore, DrupalFormats) = None

\* The node two positions before the h2 holds a text that matches a format.
DateTwoBefore ==
    /\ rows[j] > 2
    /\ first_format(TextTwoBefore, DrupalFormats) # None

\* C26: senate_drupal and senate_drupal_newscontent take the date text from
\* the node two positions before the h2 among its siblings; with fewer than
\* two siblings before it, or a text that matches none of the formats, the
\* record is still emitted, its date absent.
C26_DateTwoSiblingsBefore ==
    [][/\ (AtLinkedRow /\ (FewerThanTwoBefore \/ NoFormatMatches)) =>
            /\ results' = Append(results, results'[Len(results')])
            /\ results'[Len(results')].date = None
       /\ (AtLinkedRow /\ DateTwoBefore) =>
            /\ results' = Append(results, results'[Len(results')])
            /\ results'[Len(results')].date = first_format(TextTwoBefore, DrupalFormats)]_vars

\* A linked h2 with a single sibling before it, a date, was emitted without
\* a date.
C26_Witness ==
    /\ pc = "rows"
    /\ j = 2
    /\ Len(rows) = 1
    /\ rows[1] = 2
    /\ DrupalDoc[1] = NODE_date(TEXT_dotted)
    /\ Len(results) = 1
    /\ results[1].date = None
\* The records a call running alone appends from the containers rs of one
\* listing, from the k-th on.
RECURSIVE AloneRecords(_, _, _, _)
AloneRecords(e, rs, k, url) ==
    IF k > Len(rs) THEN <<>>
    ELSE (IF RowBody(e, rs[k], url, urlparse(url).netloc).kind = "append"
          THEN <<RowBody(e, rs[k], url, urlparse(url).netloc).result>>
          ELSE <<>>)
         \o AloneRecords(e, rs, k + 1, url)

\* The list a call of e on us returns when it runs alone and its requests
\* meet resps, from the n-th URL on.
RECURSIVE AloneResults(_, _, _, _)
AloneResults(e, us, resps, n) ==
    IF n > Len(us) THEN <<>>
    ELSE (IF open_html(resps[n]).none THEN <<>>
          ELSE AloneRecords(e, Rows(e, open_html(resps[n]).doc), 1, us[n]))
         \o AloneResults(e, us, resps, n + 1)

\* C21: two calls of extractors running in parallel on different sources
\* each return, under any interleaving of their steps, exactly the list
\* they return when run alone.
C21_ParallelCallsIndependent ==
    \A p \in Procs :
        pc[p] = "done" => results[p] = AloneResults(ex[p], urls[p], response[p], 1)

\* Both calls, of different extractors, have returned: the first the four
\* records of its two listings, the second the two records of its one.
C21_Witness ==
    /\ pc[1] = "done"
    /\ pc[2] = "done"
    /\ Len(urls[1]) = 2
    /\ Len(results[1]) = 4
    /\ Len(results[2]) = 2
    /\ ex[1] # ex[2]
=============================================================================
